---- MODULE Spec2Model ----
(***************************************************************************)
(* Model of the DataNiaga Setup page (src/unnamed/part_001, lines 480-1321)*)
(* and of its ingestion-validation pipeline: validateFile, detectDelimiter,*)
(* parseCSVLine, parseCSV, validateDataStructure and processData.          *)
(*                                                                         *)
(* Text is modelled at character level: a JavaScript string is a sequence  *)
(* of one-character TLA+ strings, so trimming, the date regular            *)
(* expression, new Date(...) and parseFloat(...) are computed on the       *)
(* characters, the way the code computes them.                             *)
(***************************************************************************)
EXTENDS Integers, Sequences, FiniteSets, TLC

VARIABLES
    dateRollover,   \* the JavaScript engine rolls an over-long day (Feb 30) into the next month
    data,           \* the record table handed to validateDataStructure
    result,         \* Null, or <<r>> with r the value the function under check returned
    candidate,      \* Null, or <<f>> with f the File handed to validateFile
    fileText,       \* the text handed to detectDelimiter and parseCSV
    runs,           \* the validation runs made so far, each with its text and its outcome
    \* the state of the Setup component (useState, lines 511-520)
    step,
    userInfo,
    file,
    validationError,
    processingStep,
    progress,
    validationResult,
    showValidationDetails,
    \* the position of the processData run and its effects outside the component
    pc,
    uploadCalls,        \* the arguments of uploadMutation.mutateAsync, in call order
    createUserCalls,    \* the arguments of createUserMutation.mutateAsync, in call order
    localStorage,       \* Null, or <<u>> with u stored under 'dataniaga_user'
    route,              \* the page shown by the router
    \* the import state of the Settings component (Settings.tsx, lines 32-33)
    importStep,
    importProgress,
    importRun,          \* the position of the processImportedFile run
    progressIntervals,  \* the number of setInterval timers still running
    pendingTimeouts,    \* the setTimeout callbacks not yet run
    importToast,        \* Null, or <<t>> with t the title of the last toast
    importCalls,        \* the number of uploadMutation.mutateAsync calls
    settingsRoute,      \* the page shown while the Settings model runs
    \* the state of the Dashboard component (part_000, lines 23-34)
    selectedIsland,
    products,           \* Null while useProducts has no data, else <<list>>
    mbaRules,           \* Null while useMBARules has no data, else <<list>>
    promoSuggestionsCount,
    dashboardMounted,
    effectRuns,         \* the closures of the runs of the effect, in order
    applied             \* the runs that called setPromoSuggestionsCount, in order

pageVars == <<step, userInfo, file, validationError, processingStep, progress,
              validationResult, showValidationDetails, pc, uploadCalls,
              createUserCalls, localStorage, route>>

validationVars == <<dateRollover, data, result, candidate, fileText, runs>>

settingsVars == <<importStep, importProgress, importRun, progressIntervals,
                  pendingTimeouts, importToast, importCalls, settingsRoute>>

dashboardVars == <<selectedIsland, products, mbaRules, promoSuggestionsCount,
                   dashboardMounted, effectRuns, applied>>

otherPagesVars == <<settingsVars, dashboardVars>>

vars == <<dateRollover, data, result, candidate, fileText, runs, step, userInfo, file, validationError,
          processingStep, progress, validationResult, showValidationDetails, pc,
          uploadCalls, createUserCalls, localStorage, route, settingsVars, dashboardVars>>

----------------------------------------------------------------------------
(* Bounds of the explored inputs *)

MaxRows == 2        \* data rows per table
MaxQtyLen == 3      \* characters in a generated Quantity cell
MaxDay == 32        \* day numbers 0..MaxDay in generated dates
MaxMonth == 13      \* month numbers 0..MaxMonth in generated dates
MinYear == 2023     \* generated years are MinYear..MaxYear
MaxYear == 2024
MaxTextLen == 4     \* characters in a text generated for detectDelimiter
MaxLines == 3       \* lines in a text generated for parseCSV
MaxRuns == 3        \* validation runs in a row
MaxLineLen == 5     \* characters in a line generated for parseCSVLine

----------------------------------------------------------------------------
(* Optional values: null is the empty tuple, a present value x is <<x>> *)

Null == <<>>
Some(x) == <<x>>

----------------------------------------------------------------------------
(* Characters and strings *)

DigitChars == <<"0", "1", "2", "3", "4", "5", "6", "7", "8", "9">>

IsDigit(c) == \E i \in 1..10 : DigitChars[i] = c

DigitVal(c) == (CHOOSE i \in 1..10 : DigitChars[i] = c) - 1

\* the characters String.prototype.trim and parseFloat skip
IsSpace(c) == c \in {" ", "\t", "\r", "\n"}

RECURSIVE TrimStart(_)
TrimStart(s) ==
    IF s = <<>> THEN <<>>
    ELSE IF IsSpace(Head(s)) THEN TrimStart(Tail(s))
    ELSE s

RECURSIVE TrimEnd(_)
TrimEnd(s) ==
    IF s = <<>> THEN <<>>
    ELSE IF IsSpace(s[Len(s)]) THEN TrimEnd(SubSeq(s, 1, Len(s) - 1))
    ELSE s

Trim(s) == TrimEnd(TrimStart(s))

\* the number written by a sequence of digit characters (0 for the empty one)
RECURSIVE DigitsToNat(_)
DigitsToNat(s) ==
    IF s = <<>> THEN 0
    ELSE 10 * DigitsToNat(SubSeq(s, 1, Len(s) - 1)) + DigitVal(s[Len(s)])

\* the longest prefix of s made of digits
RECURSIVE DigitRun(_)
DigitRun(s) ==
    IF s = <<>> \/ ~IsDigit(Head(s)) THEN <<>>
    ELSE <<Head(s)>> \o DigitRun(Tail(s))

Drop(s, n) == SubSeq(s, n + 1, Len(s))

RECURSIVE Pow10(_)
Pow10(n) == IF n <= 0 THEN 1 ELSE 10 * Pow10(n - 1)

\* Array.prototype.join
RECURSIVE Join(_, _)
Join(parts, sep) ==
    IF parts = <<>> THEN <<>>
    ELSE IF Len(parts) = 1 THEN parts[1]
    ELSE parts[1] \o sep \o Join(Tail(parts), sep)

----------------------------------------------------------------------------
(* The required columns *)

InvoiceNoS == <<"I", "n", "v", "o", "i", "c", "e", "N", "o">>
InvoiceDateS == <<"I", "n", "v", "o", "i", "c", "e", "D", "a", "t", "e">>
PULAUS == <<"P", "U", "L", "A", "U">>
PRODUCT_CATEGORYS == <<"P", "R", "O", "D", "U", "C", "T", "_", "C", "A", "T", "E", "G", "O", "R", "Y">>
QuantityS == <<"Q", "u", "a", "n", "t", "i", "t", "y">>

REQUIRED_COLUMNS == <<InvoiceNoS, InvoiceDateS, PULAUS, PRODUCT_CATEGORYS, QuantityS>>

\* row.X of a record: undefined when the record has no such key
Undefined == <<"undefined">>

Get(row, key) == IF key \in DOMAIN row THEN row[key] ELSE Undefined

\* !v for a string-or-undefined value
Falsy(v) == v = Undefined \/ v = <<>>

\* !row.X || row.X.trim() === ''
IsBlank(v) == Falsy(v) \/ Trim(v) = <<>>

Kosong == <<"(", "k", "o", "s", "o", "n", "g", ")">>

\* row.X || '(kosong)'
OrKosong(v) == IF Falsy(v) THEN Kosong ELSE v

ValidationError(field, rowNumber, value, reason) ==
    [field |-> field, rowNumber |-> rowNumber, value |-> value, reason |-> <<reason>>]

----------------------------------------------------------------------------
(* InvoiceDate: the regular expression and new Date(...) *)

AllDigits(s, from, to) == \A i \in from..to : IsDigit(s[i])

\* ^\d{4}-\d{2}-\d{2}$
MatchesIsoPattern(s) ==
    /\ Len(s) = 10
    /\ AllDigits(s, 1, 4) /\ s[5] = "-"
    /\ AllDigits(s, 6, 7) /\ s[8] = "-"
    /\ AllDigits(s, 9, 10)

\* ^\d{2}\/\d{2}\/\d{4}$
MatchesSlashPattern(s) ==
    /\ Len(s) = 10
    /\ AllDigits(s, 1, 2) /\ s[3] = "/"
    /\ AllDigits(s, 4, 5) /\ s[6] = "/"
    /\ AllDigits(s, 7, 10)

dateRegexTest(s) == MatchesIsoPattern(s) \/ MatchesSlashPattern(s)

IsLeapYear(y) == (y % 4 = 0 /\ y % 100 # 0) \/ y % 400 = 0

DaysInMonth(y, m) ==
    IF m = 2 THEN (IF IsLeapYear(y) THEN 29 ELSE 28)
    ELSE IF m \in {4, 6, 9, 11} THEN 30
    ELSE 31

\* isNaN of the time value an engine builds from year, month and day fields.
\* A month outside 1..12 or a day outside 1..31 is rejected by every engine;
\* a day within 1..31 that the month does not have is rolled into the next
\* month by some engines (V8) and rejected by others: rollover says which.
FieldsAreNaN(y, m, d, rollover) ==
    IF m < 1 \/ m > 12 \/ d < 1 \/ d > 31 THEN TRUE
    ELSE IF d <= DaysInMonth(y, m) THEN FALSE
    ELSE ~rollover

\* isNaN(new Date(s).getTime()) for a string the regular expression accepted.
\* The ISO form is read as year-month-day.  The slash form is not an ISO
\* string, and the engines' fallback parsers read it as MONTH/DAY/YEAR.
\* Surrounding white space is skipped by the parsers.
DateIsNaN(s, rollover) ==
    LET t == Trim(s) IN
    IF MatchesIsoPattern(t)
    THEN FieldsAreNaN(DigitsToNat(SubSeq(t, 1, 4)), DigitsToNat(SubSeq(t, 6, 7)),
                      DigitsToNat(SubSeq(t, 9, 10)), rollover)
    ELSE IF MatchesSlashPattern(t)
    THEN FieldsAreNaN(DigitsToNat(SubSeq(t, 7, 10)), DigitsToNat(SubSeq(t, 1, 2)),
                      DigitsToNat(SubSeq(t, 4, 5)), rollover)
    ELSE TRUE

----------------------------------------------------------------------------
(* Quantity: parseFloat, isNaN, <= 0, Number.isInteger *)

InfinityS == <<"I", "n", "f", "i", "n", "i", "t", "y">>

IsPrefix(p, s) == Len(p) <= Len(s) /\ SubSeq(s, 1, Len(p)) = p

RECURSIVE NumDigits(_)
NumDigits(n) == IF n < 10 THEN 1 ELSE 1 + NumDigits(n \div 10)

\* the exponent part of a decimal literal: e or E, an optional sign, digits;
\* an exponent without digits is not part of the literal
ExponentOf(afterFrac) ==
    LET e1 == IF afterFrac # <<>> /\ Head(afterFrac) \in {"e", "E"}
              THEN Tail(afterFrac) ELSE <<>>
        eD == DigitRun(IF e1 # <<>> /\ Head(e1) \in {"+", "-"} THEN Tail(e1) ELSE e1)
    IN  IF eD = <<>> THEN 0
        ELSE IF e1 # <<>> /\ Head(e1) = "-" THEN 0 - DigitsToNat(eD)
        ELSE DigitsToNat(eD)

\* the double a literal denotes: sign * mant * 10^scale, an infinity beyond
\* the largest double, a zero below the smallest
NumberOf(neg, mant, scale) ==
    IF mant # 0 /\ NumDigits(mant) + scale > 309
    THEN [nan |-> FALSE, inf |-> TRUE, neg |-> neg, mant |-> 0, scale |-> 0]
    ELSE IF mant # 0 /\ NumDigits(mant) + scale < -323
    THEN [nan |-> FALSE, inf |-> FALSE, neg |-> neg, mant |-> 0, scale |-> 0]
    ELSE [nan |-> FALSE, inf |-> FALSE, neg |-> neg, mant |-> mant, scale |-> scale]

\* the fraction part, after the integer digits intD of the unsigned text u
FractionOf(afterInt) ==
    IF afterInt # <<>> /\ Head(afterInt) = "." THEN DigitRun(Tail(afterInt)) ELSE <<>>

AfterFraction(afterInt, fracD) ==
    IF afterInt # <<>> /\ Head(afterInt) = "."
    THEN Drop(afterInt, 1 + Len(fracD)) ELSE afterInt

ParseDigits(u, neg, intD, fracD, exp) ==
    IF IsPrefix(InfinityS, u)
    THEN [nan |-> FALSE, inf |-> TRUE, neg |-> neg, mant |-> 0, scale |-> 0]
    ELSE IF intD = <<>> /\ fracD = <<>>
    THEN [nan |-> TRUE, inf |-> FALSE, neg |-> FALSE, mant |-> 0, scale |-> 0]
    ELSE NumberOf(neg, DigitsToNat(intD \o fracD), exp - Len(fracD))

ParseFraction(u, neg, intD, afterInt, fracD) ==
    ParseDigits(u, neg, intD, fracD, ExponentOf(AfterFraction(afterInt, fracD)))

ParseInteger(u, neg, intD) ==
    ParseFraction(u, neg, intD, Drop(u, Len(intD)), FractionOf(Drop(u, Len(intD))))

ParseUnsigned(u, neg) == ParseInteger(u, neg, DigitRun(u))

ParseSigned(t) ==
    ParseUnsigned(IF t # <<>> /\ Head(t) \in {"+", "-"} THEN Tail(t) ELSE t,
                  t # <<>> /\ Head(t) = "-")

\* parseFloat: skip leading white space, then read the longest prefix that is
\* a decimal literal (sign, digits, fraction, exponent); NaN when there is none.
parseFloat(s) == ParseSigned(TrimStart(s))

isNaN(q) == q.nan

\* qty <= 0 (false for NaN; -0 <= 0 is true)
LeqZero(q) == ~q.nan /\ (q.neg \/ (~q.inf /\ q.mant = 0))

\* Number.isInteger(qty)
NumberIsInteger(q) ==
    /\ ~q.nan /\ ~q.inf
    /\ \/ q.mant = 0
       \/ q.scale >= 0
       \/ q.mant % Pow10(0 - q.scale) = 0

----------------------------------------------------------------------------
(* validateDataStructure: the checks of one row, in the order of the code *)

InvoiceNoErrors(row, rowNum) ==
    LET v == Get(row, InvoiceNoS) IN
    IF IsBlank(v)
    THEN <<ValidationError("InvoiceNo", rowNum, OrKosong(v), "Nomor faktur tidak boleh kosong")>>
    ELSE <<>>

InvoiceDateErrors(row, rowNum, rollover) ==
    LET v == Get(row, InvoiceDateS) IN
    IF IsBlank(v)
    THEN <<ValidationError("InvoiceDate", rowNum, OrKosong(v), "Tanggal faktur tidak boleh kosong")>>
    ELSE IF ~dateRegexTest(Trim(v))
    THEN <<ValidationError("InvoiceDate", rowNum, v,
                           "Format tanggal salah. Gunakan YYYY-MM-DD atau DD/MM/YYYY")>>
    ELSE IF DateIsNaN(v, rollover)
    THEN <<ValidationError("InvoiceDate", rowNum, v,
                           "Tanggal tidak valid (periksa hari/bulan/tahun)")>>
    ELSE <<>>

PULAUErrors(row, rowNum) ==
    LET v == Get(row, PULAUS) IN
    IF IsBlank(v)
    THEN <<ValidationError("PULAU", rowNum, OrKosong(v), "Nama wilayah/pulau tidak boleh kosong")>>
    ELSE <<>>

PRODUCT_CATEGORYErrors(row, rowNum) ==
    LET v == Get(row, PRODUCT_CATEGORYS) IN
    IF IsBlank(v)
    THEN <<ValidationError("PRODUCT_CATEGORY", rowNum, OrKosong(v), "Kategori produk tidak boleh kosong")>>
    ELSE <<>>

\* mutant: the whole-number check is made before the greater-than-zero check
QuantityErrors_Mutant(row, rowNum) ==
    LET v == Get(row, QuantityS) IN
    IF IsBlank(v)
    THEN <<ValidationError("Quantity", rowNum, OrKosong(v), "Jumlah produk tidak boleh kosong")>>
    ELSE LET qty == parseFloat(v) IN
         IF isNaN(qty)
         THEN <<ValidationError("Quantity", rowNum, v, "Quantity harus berupa angka")>>
         ELSE IF ~NumberIsInteger(qty)
         THEN <<ValidationError("Quantity", rowNum, v,
                                "Quantity harus berupa angka bulat (tidak ada desimal)")>>
         ELSE IF LeqZero(qty)
         THEN <<ValidationError("Quantity", rowNum, v, "Quantity harus lebih besar dari 0")>>
         ELSE <<>>

QuantityErrors(row, rowNum) ==
    LET v == Get(row, QuantityS) IN
    IF IsBlank(v)
    THEN <<ValidationError("Quantity", rowNum, OrKosong(v), "Jumlah produk tidak boleh kosong")>>
    ELSE LET qty == parseFloat(v) IN
         IF isNaN(qty)
         THEN <<ValidationError("Quantity", rowNum, v, "Quantity harus berupa angka")>>
         ELSE IF LeqZero(qty)
         THEN <<ValidationError("Quantity", rowNum, v, "Quantity harus lebih besar dari 0")>>
         ELSE IF ~NumberIsInteger(qty)
         THEN <<ValidationError("Quantity", rowNum, v,
                                "Quantity harus berupa angka bulat (tidak ada desimal)")>>
         ELSE <<>>

\* mutant: the Quantity check is made before the InvoiceDate check
RowErrors_Mutant(row, rowNum, rollover) ==
    InvoiceNoErrors(row, rowNum) \o QuantityErrors(row, rowNum)
        \o InvoiceDateErrors(row, rowNum, rollover)
        \o PULAUErrors(row, rowNum) \o PRODUCT_CATEGORYErrors(row, rowNum)

\* the errors one pass of the forEach callback pushes, in push order
RowErrors(row, rowNum, rollover) ==
    InvoiceNoErrors(row, rowNum) \o InvoiceDateErrors(row, rowNum, rollover)
        \o PULAUErrors(row, rowNum) \o PRODUCT_CATEGORYErrors(row, rowNum)
        \o QuantityErrors(row, rowNum)

\* rowValid at the end of the callback: no branch set it to false
RowValid(row, rowNum, rollover) == RowErrors(row, rowNum, rollover) = <<>>

\* mutant: every scanned row is counted
CountRow_Mutant(rowValid, validRows) == validRows + 1

\* if (rowValid) validRows++
CountRow(rowValid, validRows) == IF rowValid THEN validRows + 1 ELSE validRows

\* pulauNames.add(row.PULAU.trim()) in the else branch
AddPulau(row, pulauNames) ==
    IF IsBlank(Get(row, PULAUS)) THEN pulauNames
    ELSE pulauNames \cup {Trim(Get(row, PULAUS))}

\* productNames.add(row.PRODUCT_CATEGORY) in the else branch
AddProduct(row, productNames) ==
    IF IsBlank(Get(row, PRODUCT_CATEGORYS)) THEN productNames
    ELSE productNames \cup {Get(row, PRODUCT_CATEGORYS)}

\* mutant: rows are numbered from 1, without counting the header line
RECURSIVE ScanRows_IndexMutant(_, _, _, _)
ScanRows_IndexMutant(rows, i, acc, rollover) ==
    IF i > Len(rows) THEN acc
    ELSE LET rowNum == i
             row == rows[i]
         IN  ScanRows_IndexMutant(rows, i + 1,
                 [errors |-> acc.errors \o RowErrors(row, rowNum, rollover),
                  validRows |-> CountRow(RowValid(row, rowNum, rollover), acc.validRows),
                  pulauNames |-> AddPulau(row, acc.pulauNames),
                  productNames |-> AddProduct(row, acc.productNames)],
                 rollover)

\* mutant: a row whose InvoiceNo was seen in an earlier row gets a duplicate error
RECURSIVE ScanRows_Mutant(_, _, _, _)
ScanRows_Mutant(rows, i, acc, rollover) ==
    IF i > Len(rows) THEN acc
    ELSE LET rowNum == i + 1
             row == rows[i]
             duplicate ==
                 IF ~IsBlank(Get(row, InvoiceNoS))
                    /\ \E j \in 1..(i - 1) : Get(rows[j], InvoiceNoS) = Get(row, InvoiceNoS)
                 THEN <<ValidationError("InvoiceNo", rowNum, Get(row, InvoiceNoS),
                                        "Nomor faktur duplikat")>>
                 ELSE <<>>
         IN  ScanRows_Mutant(rows, i + 1,
                 [errors |-> acc.errors \o duplicate \o RowErrors(row, rowNum, rollover),
                  validRows |-> CountRow(duplicate = <<>> /\ RowValid(row, rowNum, rollover),
                                         acc.validRows),
                  pulauNames |-> AddPulau(row, acc.pulauNames),
                  productNames |-> AddProduct(row, acc.productNames)],
                 rollover)

\* data.forEach((row, index) => ...) from index i on (1-based here), acc the
\* variables the callback closes over
RECURSIVE ScanRows(_, _, _, _)
ScanRows(rows, i, acc, rollover) ==
    IF i > Len(rows) THEN acc
    ELSE LET rowNum == i + 1     \* index + 2 with the 0-based index of the code
             row == rows[i]
         IN  ScanRows(rows, i + 1,
                 [errors |-> acc.errors \o RowErrors(row, rowNum, rollover),
                  validRows |-> CountRow(RowValid(row, rowNum, rollover), acc.validRows),
                  pulauNames |-> AddPulau(row, acc.pulauNames),
                  productNames |-> AddProduct(row, acc.productNames)],
                 rollover)

\* mutant: find instead of filter, only the first missing column is reported
MissingColumns_Mutant(firstRow) ==
    LET all == SelectSeq(REQUIRED_COLUMNS, LAMBDA col : col \notin DOMAIN firstRow)
    IN  IF all = <<>> THEN <<>> ELSE <<all[1]>>

\* REQUIRED_COLUMNS.filter(col => !(col in firstRow))
MissingColumns(firstRow) ==
    SelectSeq(REQUIRED_COLUMNS, LAMBDA col : col \notin DOMAIN firstRow)

\* mutant: an empty table is reported as valid, without an error
EmptyDataResult_Mutant ==
    [isValid |-> TRUE,
     errors |-> <<>>,
     warnings |-> <<>>,
     stats |-> [totalRows |-> 0, validRows |-> 0]]

EmptyDataResult ==
    [isValid |-> FALSE,
     errors |-> <<ValidationError("general", 0, <<>>,
                                  "Data kosong. Tidak ada baris transaksi ditemukan.")>>,
     warnings |-> <<>>,
     stats |-> [totalRows |-> 0, validRows |-> 0]]

MissingColumnsResult(rows, missingColumns) ==
    [isValid |-> FALSE,
     errors |-> <<[field |-> "header", rowNumber |-> 1,
                   value |-> Join(missingColumns, <<",", " ">>),
                   reason |-> <<"Kolom wajib tidak ditemukan: ">>
                                  \o Join(missingColumns, <<",", " ">>)]>>,
     warnings |-> <<>>,
     stats |-> [totalRows |-> Len(rows), validRows |-> 0]]

\* mutant: the result is called valid as soon as one row is valid
ScanResult_Mutant(rows, acc, warnings) ==
    [isValid |-> acc.validRows > 0,
     errors |-> acc.errors,
     warnings |-> warnings,
     stats |-> [totalRows |-> Len(rows), validRows |-> acc.validRows]]

\* the final return: warnings is the array declared at the top, to which
\* nothing was pushed
ScanResult(rows, acc, warnings) ==
    [isValid |-> Len(acc.errors) = 0,
     errors |-> acc.errors,
     warnings |-> warnings,
     stats |-> [totalRows |-> Len(rows), validRows |-> acc.validRows]]

\* mutant: the errors array outlives the call and is never cleared, a call
\* starts with the errors the call before it left
ScanStart_Mutant ==
    [errors |-> IF runs # <<>> /\ runs[Len(runs)].outcome.validation # Null
                THEN runs[Len(runs)].outcome.validation[1].errors
                ELSE <<>>,
     validRows |-> 0, pulauNames |-> {}, productNames |-> {}]

\* the locals each call declares anew: errors, validRows and the two name sets
ScanStart == [errors |-> <<>>, validRows |-> 0, pulauNames |-> {}, productNames |-> {}]

validateDataStructure(rows, rollover) ==
    IF Len(rows) = 0 THEN EmptyDataResult
    ELSE IF Len(MissingColumns(rows[1])) > 0
    THEN MissingColumnsResult(rows, MissingColumns(rows[1]))
    ELSE ScanResult(rows, ScanRows(rows, 1, ScanStart, rollover), <<>>)

----------------------------------------------------------------------------
(* detectDelimiter, parseCSVLine, parseCSV *)

\* String.prototype.split on a one-character separator: the pieces between
\* consecutive occurrences of sep
Split(s, sep) ==
    LET at == {i \in 1..Len(s) : s[i] = sep}
        n == Cardinality(at)
        pos(k) == CHOOSE i \in at : Cardinality({j \in at : j < i}) = k - 1
    IN  [k \in 1..(n + 1) |->
            SubSeq(s, IF k = 1 THEN 1 ELSE pos(k - 1) + 1,
                      IF k = n + 1 THEN Len(s) ELSE pos(k) - 1)]

\* (line.match(/c/g) || []).length
CountChar(s, c) == Cardinality({i \in 1..Len(s) : s[i] = c})

\* mutant: a tie for the maximum goes to the semicolon, then to the tab
detectDelimiter_Mutant(text) ==
    LET firstLine == Split(text, "\n")[1]
        commaCount == CountChar(firstLine, ",")
        semicolonCount == CountChar(firstLine, ";")
        tabCount == CountChar(firstLine, "\t")
    IN  IF semicolonCount >= commaCount /\ semicolonCount >= tabCount THEN ";"
        ELSE IF tabCount >= commaCount /\ tabCount >= semicolonCount THEN "\t"
        ELSE ","

detectDelimiter(text) ==
    LET firstLine == Split(text, "\n")[1]
        commaCount == CountChar(firstLine, ",")
        semicolonCount == CountChar(firstLine, ";")
        tabCount == CountChar(firstLine, "\t")
    IN  IF semicolonCount > commaCount /\ semicolonCount > tabCount THEN ";"
        ELSE IF tabCount > commaCount /\ tabCount > semicolonCount THEN "\t"
        ELSE ","

\* the for loop of parseCSVLine from position i on (1-based), then the final push
RECURSIVE ParseLineFrom(_, _, _, _, _, _)
ParseLineFrom(line, delimiter, i, current, insideQuotes, fields) ==
    CASE i > Len(line) -> Append(fields, Trim(current))
      [] i <= Len(line) /\ line[i] = "\"" /\ insideQuotes
            /\ i + 1 <= Len(line) /\ line[i + 1] = "\"" ->       \* escaped quote
           ParseLineFrom(line, delimiter, i + 2, Append(current, "\""), insideQuotes, fields)
      [] i <= Len(line) /\ line[i] = "\""
            /\ ~(insideQuotes /\ i + 1 <= Len(line) /\ line[i + 1] = "\"") ->
           ParseLineFrom(line, delimiter, i + 1, current, ~insideQuotes, fields)
      [] i <= Len(line) /\ line[i] # "\"" /\ line[i] = delimiter /\ ~insideQuotes ->
           ParseLineFrom(line, delimiter, i + 1, <<>>, insideQuotes,
                         Append(fields, Trim(current)))
      [] OTHER ->
           ParseLineFrom(line, delimiter, i + 1, Append(current, line[i]),
                         insideQuotes, fields)

\* mutant: the line is split at every delimiter, quoted or not
parseCSVLine_Mutant(line, delimiter) ==
    [k \in 1..Len(Split(line, delimiter)) |-> Trim(Split(line, delimiter)[k])]

parseCSVLine(line, delimiter) == ParseLineFrom(line, delimiter, 1, <<>>, FALSE, <<>>)

\* s.replace(/^"|"$/g, '')
StripQuotes(s) ==
    LET a == IF s # <<>> /\ Head(s) = "\"" THEN Tail(s) ELSE s
    IN  IF a # <<>> /\ a[Len(a)] = "\"" THEN SubSeq(a, 1, Len(a) - 1) ELSE a

\* text.trim().split('\n').filter(line => line.trim())
NonBlankLines(text) ==
    SelectSeq(Split(Trim(text), "\n"), LAMBDA line : Trim(line) # <<>>)

\* values[j] || '' (j 1-based here)
ValueAt(values, j) == IF j <= Len(values) THEN values[j] ELSE <<>>

\* mutant: a key is set only for the cells the line has
RecordOf_Mutant(header, values) ==
    [k \in {header[j] : j \in 1..(IF Len(values) < Len(header) THEN Len(values)
                                    ELSE Len(header))} |->
        LET last == CHOOSE j \in 1..Len(header) :
                        header[j] = k /\ \A j2 \in 1..Len(header) : header[j2] = k => j2 <= j
        IN  StripQuotes(ValueAt(values, last))]

\* the record of one data line: record[header[j]] = value for j in order, a
\* later column of the same name overwriting an earlier one
RecordOf(header, values) ==
    [k \in {header[j] : j \in 1..Len(header)} |->
        LET last == CHOOSE j \in 1..Len(header) :
                        header[j] = k /\ \A j2 \in 1..Len(header) : header[j2] = k => j2 <= j
        IN  StripQuotes(ValueAt(values, last))]

\* mutant: only a text without any non-blank line is too short
parseCSV_Mutant(text) ==
    LET lines == NonBlankLines(text) IN
    IF Len(lines) < 1 THEN [threw |-> TRUE, delimiter |-> "", data |-> <<>>]
    ELSE LET delimiter == detectDelimiter(text)
             header == [j \in 1..Len(parseCSVLine(lines[1], delimiter)) |->
                           StripQuotes(parseCSVLine(lines[1], delimiter)[j])]
         IN  [threw |-> FALSE,
              delimiter |-> delimiter,
              data |-> [i \in 1..(Len(lines) - 1) |->
                           RecordOf(header, parseCSVLine(lines[i + 1], delimiter))]]

\* parseCSV: threw says that the 'File terlalu pendek' error was thrown,
\* delimiter is the local constant of line 606 ("" before it is assigned)
parseCSV(text) ==
    LET lines == NonBlankLines(text) IN
    IF Len(lines) < 2 THEN [threw |-> TRUE, delimiter |-> "", data |-> <<>>]
    ELSE LET delimiter == detectDelimiter(text)
             header == [j \in 1..Len(parseCSVLine(lines[1], delimiter)) |->
                           StripQuotes(parseCSVLine(lines[1], delimiter)[j])]
         IN  [threw |-> FALSE,
              delimiter |-> delimiter,
              data |-> [i \in 1..(Len(lines) - 1) |->
                           RecordOf(header, parseCSVLine(lines[i + 1], delimiter))]]

----------------------------------------------------------------------------
(* Generated inputs *)

TwoDigits(n) == <<DigitChars[((n \div 10) % 10) + 1], DigitChars[(n % 10) + 1]>>

FourDigits(n) == TwoDigits(n \div 100) \o TwoDigits(n % 100)

IsoDate(y, m, d) == FourDigits(y) \o <<"-">> \o TwoDigits(m) \o <<"-">> \o TwoDigits(d)

SlashDate(a, b, y) == TwoDigits(a) \o <<"/">> \o TwoDigits(b) \o <<"/">> \o FourDigits(y)

DashDate(a, b, y) == TwoDigits(a) \o <<"-">> \o TwoDigits(b) \o <<"-">> \o FourDigits(y)

YearSlashDate(y, m, d) == FourDigits(y) \o <<"/">> \o TwoDigits(m) \o <<"/">> \o TwoDigits(d)

JAWA == <<"J", "A", "W", "A">>
BALI == <<"B", "A", "L", "I">>

\* all strings over chars of length at most n
RECURSIVE StringsUpTo(_, _)
StringsUpTo(chars, n) ==
    IF n = 0 THEN {<<>>}
    ELSE LET shorter == StringsUpTo(chars, n - 1)
         IN  shorter \cup {Append(s, c) : s \in shorter, c \in chars}

\* the dates of the date model: the empty cell and every year, month and day
\* number within the bounds, written year-month-day, a/b/year, b/a/year,
\* a-b-year and year/a/b
GeneratedDates ==
    {<<>>} \cup
    UNION {{IsoDate(y, a, b), SlashDate(a, b, y), SlashDate(b, a, y), DashDate(a, b, y),
            YearSlashDate(y, a, b)} :
           y \in MinYear..MaxYear, a \in 0..MaxMonth, b \in 0..MaxDay}

QuantityChars == {"0", "3", "5", "-", ".", "t", "e", "n", " ", "p"}

GeneratedQuantities == StringsUpTo(QuantityChars, MaxQtyLen)

\* the cells of the table model
TableCells(key) ==
    IF key = InvoiceNoS THEN {<<>>, <<"A", "1">>}
    ELSE IF key = InvoiceDateS THEN {DashDate(1, 15, 2024), IsoDate(2024, 1, 15)}
    ELSE IF key = PULAUS THEN {<<>>, JAWA}
    ELSE IF key = PRODUCT_CATEGORYS THEN {<<>>, <<"c", "1">>}
    ELSE {<<"t", "e", "n">>, <<"5">>}

quantityLower == <<"q", "u", "a", "n", "t", "i", "t", "y">>

AllKeys == {REQUIRED_COLUMNS[i] : i \in 1..Len(REQUIRED_COLUMNS)} \cup {quantityLower}

\* the key sets of a table: any subset of the required columns, where the
\* Quantity column may instead be spelled in lower case
HeaderSets == {K \in SUBSET AllKeys : ~(quantityLower \in K /\ QuantityS \in K)}

Restrict(f, K) == [k \in K |-> f[k]]

FullRows ==
    {[k \in AllKeys |->
        IF k = InvoiceNoS THEN a
        ELSE IF k = InvoiceDateS THEN b
        ELSE IF k = PULAUS THEN c
        ELSE IF k = PRODUCT_CATEGORYS THEN d
        ELSE IF k = QuantityS THEN e
        ELSE <<"5">>] :
     a \in TableCells(InvoiceNoS), b \in TableCells(InvoiceDateS), c \in TableCells(PULAUS),
     d \in TableCells(PRODUCT_CATEGORYS), e \in TableCells(QuantityS)}

RowsWith(K) == {Restrict(r, K) : r \in FullRows}

\* every record of a table has the key set of the table
Tables == UNION {[1..n -> RowsWith(K)] : n \in 0..MaxRows, K \in HeaderSets}

GoodRow ==
    [k \in {REQUIRED_COLUMNS[i] : i \in 1..Len(REQUIRED_COLUMNS)} |->
        IF k = InvoiceNoS THEN <<"A", "1">>
        ELSE IF k = InvoiceDateS THEN IsoDate(2024, 1, 15)
        ELSE IF k = PULAUS THEN JAWA
        ELSE IF k = PRODUCT_CATEGORYS THEN <<"c", "1">>
        ELSE <<"5">>]

----------------------------------------------------------------------------
(* The Setup page *)

Message(text) == [msg |-> text, count |-> 0]

MaxFileSize == 52428800     \* 50 * 1024 * 1024

csvExt == <<".", "c", "s", "v">>
xlsxExt == <<".", "x", "l", "s", "x">>
xlsExt == <<".", "x", "l", "s">>

LowerOf(c) ==
    IF c = "C" THEN "c" ELSE IF c = "S" THEN "s" ELSE IF c = "V" THEN "v"
    ELSE IF c = "X" THEN "x" ELSE IF c = "L" THEN "l" ELSE IF c = "D" THEN "d"
    ELSE IF c = "A" THEN "a" ELSE IF c = "T" THEN "t" ELSE c

\* two UTF-16 code units that are written by their code points: the capital
\* I with dot above, and the combining dot above
CapitalIDot == "U+0130"
CombiningDot == "U+0307"

\* String.prototype.toLowerCase: one code unit for each code unit, except that
\* U+0130 becomes the two code units i, U+0307
RECURSIVE toLowerCase(_)
toLowerCase(s) ==
    IF s = <<>> THEN <<>>
    ELSE (IF Head(s) = CapitalIDot THEN <<"i", CombiningDot>> ELSE <<LowerOf(Head(s))>>)
             \o toLowerCase(Tail(s))

\* s.lastIndexOf('.') as a 1-based position, 0 when there is no dot
LastDot(s) ==
    IF \E i \in 1..Len(s) : s[i] = "."
    THEN CHOOSE i \in 1..Len(s) : s[i] = "." /\ \A j \in (i + 1)..Len(s) : s[j] # "."
    ELSE 0

\* file.name.toLowerCase().slice(file.name.lastIndexOf('.')): without a dot
\* the index is -1 and slice(-1) is the last character
Extension(name) ==
    LET lower == toLowerCase(name) IN
    IF LastDot(name) = 0
    THEN (IF Len(lower) = 0 THEN <<>> ELSE <<lower[Len(lower)]>>)
    ELSE SubSeq(lower, LastDot(name), Len(lower))

\* validateFile: ok is the returned boolean, error the value given to
\* setValidationError
validateFile(f) ==
    IF Extension(f.name) \notin {csvExt, xlsxExt, xlsExt}
    THEN [ok |-> FALSE,
          error |-> Some(Message("Format file tidak didukung. Gunakan CSV atau Excel (.csv, .xlsx, .xls)"))]
    ELSE IF f.size = 0
    THEN [ok |-> FALSE,
          error |-> Some(Message("File kosong. Pastikan file memiliki data."))]
    ELSE IF f.size > MaxFileSize
    THEN [ok |-> FALSE,
          error |-> Some(Message("File terlalu besar (max 50MB). Perpecil file Anda."))]
    ELSE [ok |-> TRUE, error |-> Null]

\* canProceedStep1
canProceedStep1(u) == Trim(u.name) # <<>> /\ Trim(u.role) # <<>> /\ Trim(u.company) # <<>>

\* mutant: the run is stopped only when no row at all is valid
ValidationBlocks_Mutant(validation) == validation.stats.validRows = 0

\* if (!validation.isValid) { ...; return; }
ValidationBlocks(validation) == ~validation.isValid

ReadFailedMessage == "Gagal membaca file"
ParseFailedMessage == "Gagal parse CSV: File terlalu pendek. Minimal perlu header + 1 baris data"
InvalidDataMessage == "Data tidak valid: kesalahan ditemukan. Lihat detail di bawah."
UploadFailedMessage == "upload request failed"
CreateUserFailedMessage == "create user request failed"

\* the files the user can pick
CommaHeader == Join(REQUIRED_COLUMNS, <<",">>)
SemicolonHeader == Join(REQUIRED_COLUMNS, <<";">>)
GoodCells == <<<<"A", "1">>, IsoDate(2024, 1, 15), JAWA, <<"c", "1">>, <<"5">>>>
BadQuantityCells == <<<<"A", "2">>, IsoDate(2024, 1, 15), BALI, <<"c", "2">>, <<"t", "e", "n">>>>
SlashDateCells == <<<<"A", "3">>, SlashDate(15, 1, 2024), JAWA, <<"c", "1">>, <<"5">>>>
NL == <<"\n">>

dataCsv == <<"d", "a", "t", "a", ".", "c", "s", "v">>
dataTxt == <<"d", "a", "t", "a", ".", "t", "x", "t">>
upperCsv == <<"D", "A", "T", "A", ".", "C", "S", "V">>

TextFile(name, text) == [name |-> name, size |-> Len(text), text |-> text]

CandidateFiles ==
    {TextFile(dataCsv, CommaHeader \o NL \o Join(GoodCells, <<",">>)),
     TextFile(upperCsv, SemicolonHeader \o NL \o Join(GoodCells, <<";">>) \o NL),
     TextFile(dataCsv, CommaHeader \o NL \o Join(GoodCells, <<",">>) \o NL
                           \o Join(BadQuantityCells, <<",">>)),
     TextFile(dataCsv, CommaHeader \o NL \o Join(SlashDateCells, <<",">>)),
     TextFile(dataCsv, CommaHeader \o NL),
     TextFile(dataCsv, Join(<<InvoiceNoS, InvoiceDateS, PULAUS, PRODUCT_CATEGORYS>>, <<",">>)
                           \o NL \o Join(GoodCells, <<",">>)),
     TextFile(dataTxt, CommaHeader \o NL \o Join(GoodCells, <<",">>)),
     TextFile(dataCsv, <<>>),
     \* blank lines only
     TextFile(dataCsv, NL \o <<" ">> \o NL),
     \* a file over the size limit; its content is not materialised
     [name |-> dataCsv, size |-> MaxFileSize + 1, text |-> CommaHeader \o NL \o Join(GoodCells, <<",">>)]}

\* the texts of the delimiter model: every short text over the three
\* delimiters, a letter and the line break, and the semicolon header
DelimiterChars == {",", ";", "\t", "a", "\n"}

DelimiterTexts == StringsUpTo(DelimiterChars, MaxTextLen) \cup {SemicolonHeader}

\* a row whose first cell is "A1" with the quotes as part of the value
\* (written """A1""" in the file), and with a sixth cell
QuotedCells ==
    << <<"\"", "\"", "\"", "A", "1", "\"", "\"", "\"">>, IsoDate(2024, 1, 15), JAWA,
       <<"c", "1">>, <<"5">>, <<"x">> >>

\* the lines of the text model: blank lines, the header with commas and with
\* semicolons, a good row with each delimiter, a row with a bad Quantity and
\* the row with the quoted cell
LineChoices ==
    {<<>>, <<" ">>, CommaHeader, SemicolonHeader, Join(GoodCells, <<",">>),
     Join(GoodCells, <<";">>), Join(BadQuantityCells, <<",">>), Join(QuotedCells, <<",">>)}

\* every text of at most MaxLines of these lines, joined by line breaks
GeneratedTexts ==
    {<<>>} \cup UNION {{Join(ls, NL) : ls \in [1..n -> LineChoices]} : n \in 1..MaxLines}

\* the texts validated more than once: a clean table, a table with a bad row,
\* a table with two bad rows, a table without the Quantity column, a text
\* with the header only
RunTexts ==
    {CommaHeader \o NL \o Join(GoodCells, <<",">>),
     CommaHeader \o NL \o Join(GoodCells, <<",">>) \o NL \o Join(BadQuantityCells, <<",">>),
     SemicolonHeader \o NL \o Join(GoodCells, <<",">>) \o NL \o Join(GoodCells, <<";">>),
     Join(<<InvoiceNoS, InvoiceDateS, PULAUS, PRODUCT_CATEGORYS>>, <<",">>)
         \o NL \o Join(GoodCells, <<",">>),
     CommaHeader \o NL}

\* the lines of the line model: every short line over the quote, two
\* delimiters, a letter and the space
LineChars == {"\"", ",", ";", "a", " "}

GeneratedLines == StringsUpTo(LineChars, MaxLineLen)

\* the files of the file model: every name made of a stem and an ending, in
\* every size around the two limits
FileStems == {<<>>, <<"a">>, <<"A", ".", "b">>, <<CapitalIDot>>}

FileEndings ==
    {csvExt, xlsxExt, xlsExt, <<".", "C", "S", "V">>, <<".", "X", "l", "s">>,
     <<".", "t", "x", "t">>, <<".", "c", "s">>, <<".", "x", "l", "s", "m">>,
     <<"c", "s", "v">>, <<".", "c", "s", "v", ".", "t", "x", "t">>, <<".">>, <<>>}

FileSizes == {0, 1, MaxFileSize - 1, MaxFileSize, MaxFileSize + 1}

GeneratedFiles ==
    {[name |-> stem \o ending, size |-> size, text |-> <<>>] :
        stem \in FileStems, ending \in FileEndings, size \in FileSizes}

----------------------------------------------------------------------------
(* The import card of the Settings page (src/pages/Settings.tsx):           *)
(* processImportedFile with its simulated-progress interval and its timers  *)

MaxImports == 3     \* imports started on the Settings page

\* Math.random() * 25 takes any value of [0, 25); these stand for it
RandomIncrements == {0, 10, 24}

ProgressCap == 85

validExtensions == {csvExt, xlsxExt, xlsExt}

UnsupportedTitle == "Format File Tidak Didukung"
ImportDoneTitle == "Impor Berhasil"
ImportFailedTitle == "Gagal Impor"

ImportFileNames ==
    {<<"a">> \o csvExt, <<"a">> \o xlsxExt, <<"a">> \o xlsExt,
     <<"a", ".", "t", "x", "t">>}

Minimum(a, b) == IF a < b THEN a ELSE b

SettingsInit ==
    /\ importStep = "idle"
    /\ importProgress = 0
    /\ importRun = "none"
    /\ progressIntervals = 0
    /\ pendingTimeouts = {}
    /\ importToast = Null
    /\ importCalls = 0
    /\ settingsRoute = "settings"

\* the drop zone and the file input act only while importStep === 'idle'
ImportOffered == settingsRoute = "settings" /\ importStep = "idle"

\* processImportedFile up to its first await: the extension check, then
\* 'uploading' and 'validating' set in one pass and the interval started
processImportedFile(name) ==
    /\ ImportOffered
    /\ IF Extension(name) \notin validExtensions
       THEN /\ importToast' = Some(UnsupportedTitle)
            /\ UNCHANGED <<importStep, importProgress, importRun,
                           progressIntervals, importCalls>>
       ELSE /\ importCalls < MaxImports
            /\ importStep' = "validating"
            /\ importProgress' = 0
            /\ progressIntervals' = progressIntervals + 1
            /\ importRun' = "wait500"
            /\ UNCHANGED <<importToast, importCalls>>
    /\ UNCHANGED <<pendingTimeouts, settingsRoute>>

handleImportDrop == \E name \in ImportFileNames : processImportedFile(name)

\* the callback of setInterval(..., 300), for any interval still running
ProgressTick ==
    /\ settingsRoute = "settings"
    /\ progressIntervals > 0
    /\ \E r \in RandomIncrements :
          importProgress' = Minimum(importProgress + r, ProgressCap)
    /\ UNCHANGED <<importStep, importRun, progressIntervals, pendingTimeouts,
                   importToast, importCalls, settingsRoute>>

\* after the 500 ms wait: 'processing' and the upload call
ImportStartUpload ==
    /\ importRun = "wait500"
    /\ importStep' = "processing"
    /\ importRun' = "uploading"
    /\ importCalls' = importCalls + 1
    /\ UNCHANGED <<importProgress, progressIntervals, pendingTimeouts,
                   importToast, settingsRoute>>

\* the upload resolved: the interval is cleared, 100 and 'complete' are
\* set and the 1500 ms timer is started
ImportUploadSucceeded ==
    /\ importRun = "uploading"
    /\ progressIntervals' = progressIntervals - 1
    /\ importProgress' = 100
    /\ importStep' = "complete"
    /\ importToast' = Some(ImportDoneTitle)
    /\ pendingTimeouts' = pendingTimeouts \cup {"afterSuccess"}
    /\ importRun' = "ended"
    /\ UNCHANGED <<importCalls, settingsRoute>>

\* the upload rejected: the catch block sets 'error' and starts the
\* 3000 ms timer; progressInterval is out of its scope and keeps running
ImportUploadFailed ==
    /\ importRun = "uploading"
    /\ importStep' = "error"
    /\ importToast' = Some(ImportFailedTitle)
    /\ pendingTimeouts' = pendingTimeouts \cup {"afterError"}
    /\ importRun' = "ended"
    /\ UNCHANGED <<importProgress, progressIntervals, importCalls, settingsRoute>>

\* the 1500 ms timer of the success path
ResetAfterSuccess ==
    /\ "afterSuccess" \in pendingTimeouts
    /\ pendingTimeouts' = pendingTimeouts \ {"afterSuccess"}
    /\ importStep' = "idle"
    /\ importProgress' = 0
    /\ settingsRoute' = "dashboard"
    /\ UNCHANGED <<importRun, progressIntervals, importToast, importCalls>>

\* the 3000 ms timer of the catch block
ResetAfterError ==
    /\ "afterError" \in pendingTimeouts
    /\ pendingTimeouts' = pendingTimeouts \ {"afterError"}
    /\ importStep' = "idle"
    /\ importProgress' = 0
    /\ UNCHANGED <<importRun, progressIntervals, importToast, importCalls,
                   settingsRoute>>

----------------------------------------------------------------------------
(* The promo-suggestion count of the Dashboard (src/unnamed/part_000,       *)
(* lines 36-82): one computePromoCount run per run of the effect            *)

MaxEffectRuns == 3  \* runs of the effect on the Dashboard

MaxForecasts == 24

DefaultIsland == "JAWA, BALI, & NT"

Islands == {DefaultIsland, "SUMATERA"}

\* what useProducts and useMBARules deliver for an island
ProductsOf(island) ==
    IF island = DefaultIsland THEN <<"p1", "p2">> ELSE <<"p2">>

RuleOf(consequents, lift) == [consequents |-> consequents, lift |-> lift]

RulesOf(island) ==
    IF island = DefaultIsland
    THEN <<RuleOf([isArray |-> TRUE, items |-> <<"p3", "p1">>], 3),
           RuleOf([isArray |-> FALSE, item |-> "p2"], 2)>>
    ELSE <<RuleOf([isArray |-> FALSE, item |-> "p2"], 3)>>

Row(predicted, is_forecast) == [predicted |-> predicted, is_forecast |-> is_forecast]

\* what api.getForecast(island, product).catch(() => null) resolves to:
\* null, an object with forecast_data, or the rows themselves
ForecastResults(product) ==
    IF product = "p1"
    THEN {[kind |-> "null"],
          [kind |-> "object", forecast_data |-> <<Row(80, TRUE), Row(100, TRUE)>>]}
    ELSE {[kind |-> "null"],
          [kind |-> "rows", rows |-> <<Row(80, TRUE), Row(100, FALSE)>>]}

Pending == [kind |-> "pending"]

OrEmpty(optional) == IF optional = Null THEN <<>> ELSE optional[1]

Take(s, n) == SubSeq(s, 1, Minimum(Len(s), n))

RowsOf(res) ==
    CASE res.kind = "object" -> res.forecast_data
      [] res.kind = "rows" -> res.rows
      [] OTHER -> <<>>

FirstForecast(rows) ==
    IF \E i \in 1..Len(rows) : rows[i].is_forecast
    THEN rows[CHOOSE i \in 1..Len(rows) :
                 /\ rows[i].is_forecast
                 /\ \A j \in 1..(i - 1) : ~rows[j].is_forecast]
    ELSE rows[Len(rows)]

\* changePct < -5, with changePct = (nextVal - currentVal) / currentVal * 100
\* when currentVal > 0 and 0 otherwise
Declining(rows) ==
    /\ Len(rows) > 0
    /\ LET currentVal == rows[Len(rows)].predicted
           nextVal == FirstForecast(rows).predicted
       IN  /\ currentVal > 0
           /\ (nextVal - currentVal) * 100 < (-5) * currentVal

ConsequentsOf(r) ==
    IF r.consequents.isArray THEN r.consequents.items ELSE <<r.consequents.item>>

HasRule(rules, product) ==
    \E i \in 1..Len(rules) :
        /\ \E j \in 1..Len(ConsequentsOf(rules[i])) :
              ConsequentsOf(rules[i])[j] = product
        /\ rules[i].lift > 2

\* the count computePromoCount reaches for a run whose requests are settled
CountOf(run) ==
    Cardinality({i \in 1..Len(run.list) :
                    /\ Declining(RowsOf(run.results[i]))
                    /\ HasRule(run.rules, run.list[i])})

\* the body of the effect up to the await: the closure of one run and its
\* requests, all pending
NewRun(island, prods, rules) ==
    [island |-> island,
     list |-> Take(OrEmpty(prods), MaxForecasts),
     rules |-> OrEmpty(rules),
     mounted |-> TRUE,
     results |-> [i \in 1..Len(Take(OrEmpty(prods), MaxForecasts)) |-> Pending],
     finished |-> FALSE]

\* the cleanup of the effect: mounted = false in the closure of the last run
Cleanup(effects) ==
    IF Len(effects) = 0 THEN effects
    ELSE [effects EXCEPT ![Len(effects)].mounted = FALSE]

\* the dependencies changed: cleanup of the last run, then a new run
EffectRerun(effects, island, prods, rules) ==
    Append(Cleanup(effects), NewRun(island, prods, rules))

DashboardInit ==
    /\ selectedIsland = DefaultIsland
    /\ products = Null
    /\ mbaRules = Null
    /\ promoSuggestionsCount = 0
    /\ dashboardMounted = TRUE
    /\ effectRuns = <<NewRun(DefaultIsland, Null, Null)>>
    /\ applied = <<>>

\* setSelectedIsland from the island selector; the queries of the new
\* island deliver cached data or undefined
SelectIsland ==
    /\ dashboardMounted
    /\ Len(effectRuns) < MaxEffectRuns
    /\ \E island \in Islands \ {selectedIsland} :
       \E prods \in {Null, Some(ProductsOf(island))} :
       \E rules \in {Null, Some(RulesOf(island))} :
          /\ selectedIsland' = island
          /\ products' = prods
          /\ mbaRules' = rules
          /\ effectRuns' = EffectRerun(effectRuns, island, prods, rules)
    /\ UNCHANGED <<promoSuggestionsCount, dashboardMounted, applied>>

\* useProducts delivers the products of the selected island
ProductsLoaded ==
    /\ dashboardMounted
    /\ Len(effectRuns) < MaxEffectRuns
    /\ products = Null
    /\ products' = Some(ProductsOf(selectedIsland))
    /\ effectRuns' = EffectRerun(effectRuns, selectedIsland, products', mbaRules)
    /\ UNCHANGED <<selectedIsland, mbaRules, promoSuggestionsCount,
                   dashboardMounted, applied>>

\* useMBARules delivers the rules of the selected island
MbaRulesLoaded ==
    /\ dashboardMounted
    /\ Len(effectRuns) < MaxEffectRuns
    /\ mbaRules = Null
    /\ mbaRules' = Some(RulesOf(selectedIsland))
    /\ effectRuns' = EffectRerun(effectRuns, selectedIsland, products, mbaRules')
    /\ UNCHANGED <<selectedIsland, products, promoSuggestionsCount,
                   dashboardMounted, applied>>

\* a render for another reason: while a query has no data its default [] is
\* a new array in every render, so the effect runs again
Rerender ==
    /\ dashboardMounted
    /\ Len(effectRuns) < MaxEffectRuns
    /\ products = Null \/ mbaRules = Null
    /\ effectRuns' = EffectRerun(effectRuns, selectedIsland, products, mbaRules)
    /\ UNCHANGED <<selectedIsland, products, mbaRules, promoSuggestionsCount,
                   dashboardMounted, applied>>

\* one pending api.getForecast request of one run settles
ForecastSettled ==
    /\ \E r \in 1..Len(effectRuns) :
       \E i \in 1..Len(effectRuns[r].list) :
       \E res \in ForecastResults(effectRuns[r].list[i]) :
          /\ effectRuns[r].results[i] = Pending
          /\ effectRuns' = [effectRuns EXCEPT ![r].results[i] = res]
    /\ UNCHANGED <<selectedIsland, products, mbaRules, promoSuggestionsCount,
                   dashboardMounted, applied>>

Settled(run) == \A i \in 1..Len(run.list) : run.results[i] # Pending

\* mutant: the count is set whatever the mounted flag of the run
Resume_Mutant(r) ==
    /\ promoSuggestionsCount' = CountOf(effectRuns[r])
    /\ applied' = Append(applied, r)
    /\ effectRuns' = [effectRuns EXCEPT ![r].finished = TRUE]

\* computePromoCount after Promise.all: the loop, then
\* if (mounted) setPromoSuggestionsCount(count)
Resume(r) ==
    /\ IF effectRuns[r].mounted
       THEN /\ promoSuggestionsCount' = CountOf(effectRuns[r])
            /\ applied' = Append(applied, r)
       ELSE UNCHANGED <<promoSuggestionsCount, applied>>
    /\ effectRuns' = [effectRuns EXCEPT ![r].finished = TRUE]

computePromoCountResumes ==
    /\ \E r \in 1..Len(effectRuns) :
          /\ ~effectRuns[r].finished
          /\ Settled(effectRuns[r])
          /\ Resume(r)
    /\ UNCHANGED <<selectedIsland, products, mbaRules, dashboardMounted>>

\* the component unmounts: the cleanup of the last run
DashboardUnmount ==
    /\ dashboardMounted
    /\ dashboardMounted' = FALSE
    /\ effectRuns' = Cleanup(effectRuns)
    /\ UNCHANGED <<selectedIsland, products, mbaRules, promoSuggestionsCount,
                   applied>>

----------------------------------------------------------------------------
UserInfoCells == {<<>>, <<" ">>, <<"a">>}

EmptyUserInfo == [name |-> <<>>, role |-> <<>>, company |-> <<>>]

PageInit ==
    /\ step = 1
    /\ userInfo = EmptyUserInfo
    /\ file = Null
    /\ validationError = Null
    /\ processingStep = "idle"
    /\ progress = 0
    /\ validationResult = Null
    /\ showValidationDetails = FALSE
    /\ pc = "idle"
    /\ uploadCalls = <<>>
    /\ createUserCalls = <<>>
    /\ localStorage = Null
    /\ route = "setup"

\* no input of the function models is drawn
NoInputs ==
    /\ candidate = Null
    /\ fileText = <<>>
    /\ runs = <<>>

Init ==
    /\ dateRollover \in BOOLEAN
    /\ data = <<>>
    /\ result = Null
    /\ NoInputs
    /\ PageInit
    /\ SettingsInit
    /\ DashboardInit

\* the identity form is rendered when step === 1
SetUserInfo ==
    /\ route = "setup" /\ step = 1
    /\ \E v \in UserInfoCells :
          \/ userInfo' = [userInfo EXCEPT !.name = v]
          \/ userInfo' = [userInfo EXCEPT !.role = v]
          \/ userInfo' = [userInfo EXCEPT !.company = v]
    /\ UNCHANGED <<step, file, validationError, processingStep, progress, validationResult,
                   showValidationDetails, pc, uploadCalls, createUserCalls, localStorage, route>>
    /\ UNCHANGED <<validationVars, otherPagesVars>>

\* the button of step 1: disabled={!canProceedStep1} onClick={() => setStep(2)}
GoToStep2 ==
    /\ route = "setup" /\ step = 1
    /\ canProceedStep1(userInfo)
    /\ step' = 2
    /\ UNCHANGED <<userInfo, file, validationError, processingStep, progress, validationResult,
                   showValidationDetails, pc, uploadCalls, createUserCalls, localStorage, route>>
    /\ UNCHANGED <<validationVars, otherPagesVars>>

\* mutant: the upload card is rendered in step 2 whatever the processing step
UploadCardShown_Mutant == route = "setup" /\ step = 2

\* the upload card is rendered when step === 2 && processingStep === 'idle'
UploadCardShown == route = "setup" /\ step = 2 /\ processingStep = "idle"

\* 'Kembali': onClick={() => setStep(1)}
BackToStep1 ==
    /\ UploadCardShown
    /\ step' = 1
    /\ UNCHANGED <<userInfo, file, validationError, processingStep, progress, validationResult,
                   showValidationDetails, pc, uploadCalls, createUserCalls, localStorage, route>>
    /\ UNCHANGED <<validationVars, otherPagesVars>>

\* mutant: the offered file is selected whatever validateFile returns
OfferFile_Mutant(f) ==
    /\ validationError' = validateFile(f).error
    /\ file' = Some(f)
    /\ UNCHANGED <<step, userInfo, processingStep, progress, validationResult,
                   showValidationDetails, pc, uploadCalls, createUserCalls, localStorage, route>>
    /\ UNCHANGED <<validationVars, otherPagesVars>>

\* if (validateFile(f)) setFile(f), shared by handleDrop and handleFileInput
OfferFile(f) ==
    /\ validationError' = validateFile(f).error
    /\ file' = IF validateFile(f).ok THEN Some(f) ELSE file
    /\ UNCHANGED <<step, userInfo, processingStep, progress, validationResult,
                   showValidationDetails, pc, uploadCalls, createUserCalls, localStorage, route>>
    /\ UNCHANGED <<validationVars, otherPagesVars>>

\* the drop zone is part of the upload card, with or without a selected file
handleDrop ==
    /\ UploadCardShown
    /\ \E f \in CandidateFiles : OfferFile(f)

\* the file input is rendered only while no file is selected
handleFileInput ==
    /\ UploadCardShown
    /\ file = Null
    /\ \E f \in CandidateFiles : OfferFile(f)

\* mutant: the message of the removed file is left in place
removeFile_Mutant ==
    /\ UploadCardShown
    /\ file # Null
    /\ file' = Null
    /\ validationResult' = Null
    /\ showValidationDetails' = FALSE
    /\ UNCHANGED <<step, userInfo, validationError, processingStep, progress, pc, uploadCalls,
                   createUserCalls, localStorage, route>>
    /\ UNCHANGED <<validationVars, otherPagesVars>>

\* the remove button is rendered only while a file is selected
removeFile ==
    /\ UploadCardShown
    /\ file # Null
    /\ file' = Null
    /\ validationError' = Null
    /\ validationResult' = Null
    /\ showValidationDetails' = FALSE
    /\ UNCHANGED <<step, userInfo, processingStep, progress, pc, uploadCalls,
                   createUserCalls, localStorage, route>>
    /\ UNCHANGED <<validationVars, otherPagesVars>>

\* 'Proses Data' (disabled while file is null): handleProcessData calls
\* processData, which runs up to its first await, file.text()
handleProcessData ==
    /\ UploadCardShown
    /\ file # Null
    /\ processingStep' = "validating"     \* 'uploading', then 'validating' in the same pass
    /\ progress' = 20                     \* 10, then 20
    /\ pc' = "reading"
    /\ UNCHANGED <<step, userInfo, file, validationError, validationResult,
                   showValidationDetails, uploadCalls, createUserCalls, localStorage, route>>
    /\ UNCHANGED <<validationVars, otherPagesVars>>

\* mutant: the catch block reports the run as complete
Catch_Mutant(message) ==
    /\ processingStep' = "complete"
    /\ validationError' = Some(Message(message))
    /\ pc' = "done"

\* the catch block of processData
Catch(message) ==
    /\ processingStep' = "error"
    /\ validationError' = Some(Message(message))
    /\ pc' = "done"

\* file.text() rejects
ReadFailed ==
    /\ pc = "reading"
    /\ Catch(ReadFailedMessage)
    /\ UNCHANGED <<step, userInfo, file, progress, validationResult, showValidationDetails,
                   uploadCalls, createUserCalls, localStorage, route>>
    /\ UNCHANGED <<validationVars, otherPagesVars>>

\* file.text() resolves and parseCSV throws
ParseFailed ==
    /\ pc = "reading"
    /\ \E parsed \in {parseCSV(file[1].text)} : parsed.threw
    /\ Catch(ParseFailedMessage)
    /\ UNCHANGED <<step, userInfo, file, progress, validationResult, showValidationDetails,
                   uploadCalls, createUserCalls, localStorage, route>>
    /\ UNCHANGED <<validationVars, otherPagesVars>>

\* file.text() resolves, parseCSV returns, validateDataStructure finds errors
ValidationFailed ==
    /\ pc = "reading"
    /\ \E parsed \in {parseCSV(file[1].text)} :
          /\ ~parsed.threw
          /\ \E validation \in {validateDataStructure(parsed.data, dateRollover)} :
                /\ ValidationBlocks(validation)
                /\ validationResult' = Some(validation)
                /\ showValidationDetails' = TRUE
                /\ validationError' = Some([msg |-> InvalidDataMessage,
                                            count |-> Len(validation.errors)])
                /\ processingStep' = "error"
                /\ pc' = "done"
    /\ UNCHANGED <<step, userInfo, file, progress, uploadCalls, createUserCalls,
                   localStorage, route>>
    /\ UNCHANGED <<validationVars, otherPagesVars>>

\* file.text() resolves, parseCSV returns, the validation does not block:
\* the run waits 300 ms
ValidationPassed ==
    /\ pc = "reading"
    /\ \E parsed \in {parseCSV(file[1].text)} :
          /\ ~parsed.threw
          /\ \E validation \in {validateDataStructure(parsed.data, dateRollover)} :
                /\ ~ValidationBlocks(validation)
                /\ validationResult' = Some(validation)
    /\ pc' = "wait300"
    /\ UNCHANGED <<step, userInfo, file, validationError, processingStep, progress,
                   showValidationDetails, uploadCalls, createUserCalls, localStorage, route>>
    /\ UNCHANGED <<validationVars, otherPagesVars>>

\* after the 300 ms: uploadMutation.mutateAsync(file)
StartUpload ==
    /\ pc = "wait300"
    /\ processingStep' = "forecasting"
    /\ progress' = 40
    /\ uploadCalls' = Append(uploadCalls, file[1])
    /\ pc' = "uploading"
    /\ UNCHANGED <<step, userInfo, file, validationError, validationResult,
                   showValidationDetails, createUserCalls, localStorage, route>>
    /\ UNCHANGED <<validationVars, otherPagesVars>>

UploadSucceeded ==
    /\ pc = "uploading"
    /\ progress' = 70
    /\ processingStep' = "mba"
    /\ pc' = "wait500"
    /\ UNCHANGED <<step, userInfo, file, validationError, validationResult,
                   showValidationDetails, uploadCalls, createUserCalls, localStorage, route>>
    /\ UNCHANGED <<validationVars, otherPagesVars>>

UploadFailed ==
    /\ pc = "uploading"
    /\ Catch(UploadFailedMessage)
    /\ UNCHANGED <<step, userInfo, file, progress, validationResult, showValidationDetails,
                   uploadCalls, createUserCalls, localStorage, route>>
    /\ UNCHANGED <<validationVars, otherPagesVars>>

\* after the 500 ms: createUserMutation.mutateAsync(userInfo)
StartCreateUser ==
    /\ pc = "wait500"
    /\ progress' = 90
    /\ createUserCalls' = Append(createUserCalls, userInfo)
    /\ pc' = "creatingUser"
    /\ UNCHANGED <<step, userInfo, file, validationError, processingStep, validationResult,
                   showValidationDetails, uploadCalls, localStorage, route>>
    /\ UNCHANGED <<validationVars, otherPagesVars>>

CreateUserSucceeded ==
    /\ pc = "creatingUser"
    /\ localStorage' = Some(userInfo)
    /\ progress' = 100
    /\ processingStep' = "complete"
    /\ pc' = "wait800"
    /\ UNCHANGED <<step, userInfo, file, validationError, validationResult,
                   showValidationDetails, uploadCalls, createUserCalls, route>>
    /\ UNCHANGED <<validationVars, otherPagesVars>>

CreateUserFailed ==
    /\ pc = "creatingUser"
    /\ Catch(CreateUserFailedMessage)
    /\ UNCHANGED <<step, userInfo, file, progress, validationResult, showValidationDetails,
                   uploadCalls, createUserCalls, localStorage, route>>
    /\ UNCHANGED <<validationVars, otherPagesVars>>

\* after the 800 ms: navigate('/dashboard')
NavigateToDashboard ==
    /\ pc = "wait800"
    /\ route' = "dashboard"
    /\ pc' = "done"
    /\ UNCHANGED <<step, userInfo, file, validationError, processingStep, progress,
                   validationResult, showValidationDetails, uploadCalls, createUserCalls,
                   localStorage>>
    /\ UNCHANGED <<validationVars, otherPagesVars>>

Next ==
    \/ SetUserInfo
    \/ GoToStep2
    \/ BackToStep1
    \/ handleDrop
    \/ handleFileInput
    \/ removeFile
    \/ handleProcessData
    \/ ReadFailed
    \/ ParseFailed
    \/ ValidationFailed
    \/ ValidationPassed
    \/ StartUpload
    \/ UploadSucceeded
    \/ UploadFailed
    \/ StartCreateUser
    \/ CreateUserSucceeded
    \/ CreateUserFailed
    \/ NavigateToDashboard

Spec == Init /\ [][Next]_vars

----------------------------------------------------------------------------
(* The validation models: a table is drawn, validateDataStructure is applied *)

InitTable ==
    /\ dateRollover \in BOOLEAN
    /\ data \in Tables
    /\ result = Null
    /\ NoInputs
    /\ PageInit
    /\ SettingsInit
    /\ DashboardInit

InitDate ==
    /\ dateRollover \in BOOLEAN
    /\ data \in {<<[GoodRow EXCEPT ![InvoiceDateS] = d]>> : d \in GeneratedDates}
    /\ result = Null
    /\ NoInputs
    /\ PageInit
    /\ SettingsInit
    /\ DashboardInit

InitQuantity ==
    /\ dateRollover \in BOOLEAN
    /\ data \in {<<[GoodRow EXCEPT ![QuantityS] = q]>> : q \in GeneratedQuantities}
    /\ result = Null
    /\ NoInputs
    /\ PageInit
    /\ SettingsInit
    /\ DashboardInit

Validate ==
    /\ result = Null
    /\ result' = Some(validateDataStructure(data, dateRollover))
    /\ UNCHANGED <<dateRollover, data, candidate, fileText, runs>>
    /\ UNCHANGED <<pageVars, otherPagesVars>>

NextValidate == Validate

SpecTable == InitTable /\ [][NextValidate]_vars

SpecDate == InitDate /\ [][NextValidate]_vars

SpecQuantity == InitQuantity /\ [][NextValidate]_vars

----------------------------------------------------------------------------
(* The file model: a file is drawn, validateFile is applied *)

InitFile ==
    /\ dateRollover \in BOOLEAN
    /\ data = <<>>
    /\ result = Null
    /\ candidate \in {Some(f) : f \in GeneratedFiles}
    /\ fileText = <<>>
    /\ runs = <<>>
    /\ PageInit
    /\ SettingsInit
    /\ DashboardInit

CheckFile ==
    /\ result = Null
    /\ candidate # Null
    /\ result' = Some(validateFile(candidate[1]))
    /\ UNCHANGED <<dateRollover, data, candidate, fileText, runs>>
    /\ UNCHANGED <<pageVars, otherPagesVars>>

NextFile == CheckFile

SpecFile == InitFile /\ [][NextFile]_vars

----------------------------------------------------------------------------
(* The delimiter model: a text is drawn, detectDelimiter is applied and the *)
(* first line is split by parseCSVLine with the delimiter found             *)

InitDelimiter ==
    /\ dateRollover \in BOOLEAN
    /\ data = <<>>
    /\ result = Null
    /\ candidate = Null
    /\ fileText \in DelimiterTexts
    /\ runs = <<>>
    /\ PageInit
    /\ SettingsInit
    /\ DashboardInit

DetectDelimiter ==
    /\ result = Null
    /\ result' = Some([delimiter |-> detectDelimiter(fileText),
                        columns |-> parseCSVLine(Split(fileText, "\n")[1],
                                                 detectDelimiter(fileText))])
    /\ UNCHANGED <<dateRollover, data, candidate, fileText, runs>>
    /\ UNCHANGED <<pageVars, otherPagesVars>>

NextDelimiter == DetectDelimiter

SpecDelimiter == InitDelimiter /\ [][NextDelimiter]_vars

----------------------------------------------------------------------------
(* The text model: a text is drawn and goes through parseCSV and, when     *)
(* parseCSV returns, validateDataStructure, as in processData               *)

InitText ==
    /\ dateRollover \in BOOLEAN
    /\ data = <<>>
    /\ result = Null
    /\ candidate = Null
    /\ fileText \in GeneratedTexts
    /\ runs = <<>>
    /\ PageInit
    /\ SettingsInit
    /\ DashboardInit

\* the outcome of lines 846-853 for one text
Outcome(parsed, rollover) ==
    [parsed |-> parsed,
     validation |-> IF parsed.threw THEN Null
                    ELSE Some(validateDataStructure(parsed.data, rollover))]

ParseAndValidate ==
    /\ result = Null
    /\ \E parsed \in {parseCSV(fileText)} : result' = Some(Outcome(parsed, dateRollover))
    /\ UNCHANGED <<dateRollover, data, candidate, fileText, runs>>
    /\ UNCHANGED <<pageVars, otherPagesVars>>

NextText == ParseAndValidate

SpecText == InitText /\ [][NextText]_vars

----------------------------------------------------------------------------
(* The run model: texts are parsed and validated one after the other *)

InitRuns ==
    /\ dateRollover \in BOOLEAN
    /\ data = <<>>
    /\ result = Null
    /\ NoInputs
    /\ PageInit
    /\ SettingsInit
    /\ DashboardInit

RunValidation ==
    /\ Len(runs) < MaxRuns
    /\ \E t \in RunTexts : \E parsed \in {parseCSV(t)} :
          runs' = Append(runs, [text |-> t, outcome |-> Outcome(parsed, dateRollover)])
    /\ UNCHANGED <<dateRollover, data, result, candidate, fileText>>
    /\ UNCHANGED <<pageVars, otherPagesVars>>

NextRuns == RunValidation

SpecRuns == InitRuns /\ [][NextRuns]_vars

----------------------------------------------------------------------------
(* The line model: a line is drawn and parseCSVLine is applied *)

InitLine ==
    /\ dateRollover = FALSE
    /\ data = <<>>
    /\ result = Null
    /\ candidate = Null
    /\ fileText \in GeneratedLines
    /\ runs = <<>>
    /\ PageInit
    /\ SettingsInit
    /\ DashboardInit

TokenizeLine ==
    /\ result = Null
    /\ \E delimiter \in {",", ";"} :
          result' = Some([delimiter |-> delimiter,
                          fields |-> parseCSVLine(fileText, delimiter)])
    /\ UNCHANGED <<dateRollover, data, candidate, fileText, runs>>
    /\ UNCHANGED <<pageVars, otherPagesVars>>

NextLine == TokenizeLine

SpecLine == InitLine /\ [][NextLine]_vars

----------------------------------------------------------------------------
(* The import card of the Settings page *)

InitSettings ==
    /\ dateRollover = FALSE
    /\ data = <<>>
    /\ result = Null
    /\ NoInputs
    /\ PageInit
    /\ SettingsInit
    /\ DashboardInit

NextSettings ==
    \/ (handleImportDrop /\ UNCHANGED <<validationVars, pageVars, dashboardVars>>)
    \/ (ProgressTick /\ UNCHANGED <<validationVars, pageVars, dashboardVars>>)
    \/ (ImportStartUpload /\ UNCHANGED <<validationVars, pageVars, dashboardVars>>)
    \/ (ImportUploadSucceeded /\ UNCHANGED <<validationVars, pageVars, dashboardVars>>)
    \/ (ImportUploadFailed /\ UNCHANGED <<validationVars, pageVars, dashboardVars>>)
    \/ (ResetAfterSuccess /\ UNCHANGED <<validationVars, pageVars, dashboardVars>>)
    \/ (ResetAfterError /\ UNCHANGED <<validationVars, pageVars, dashboardVars>>)

SpecSettings == InitSettings /\ [][NextSettings]_vars

----------------------------------------------------------------------------
(* The promo-suggestion count of the Dashboard *)

InitDashboard ==
    /\ dateRollover = FALSE
    /\ data = <<>>
    /\ result = Null
    /\ NoInputs
    /\ PageInit
    /\ SettingsInit
    /\ DashboardInit

NextDashboard ==
    \/ (SelectIsland /\ UNCHANGED <<validationVars, pageVars, settingsVars>>)
    \/ (ProductsLoaded /\ UNCHANGED <<validationVars, pageVars, settingsVars>>)
    \/ (MbaRulesLoaded /\ UNCHANGED <<validationVars, pageVars, settingsVars>>)
    \/ (Rerender /\ UNCHANGED <<validationVars, pageVars, settingsVars>>)
    \/ (ForecastSettled /\ UNCHANGED <<validationVars, pageVars, settingsVars>>)
    \/ (computePromoCountResumes /\ UNCHANGED <<validationVars, pageVars, settingsVars>>)
    \/ (DashboardUnmount /\ UNCHANGED <<validationVars, pageVars, settingsVars>>)

SpecDashboard == InitDashboard /\ [][NextDashboard]_vars

----------------------------------------------------------------------------
(* Claims *)

Returned == result # Null

R == result[1]

RequiredSet == {REQUIRED_COLUMNS[i] : i \in 1..Len(REQUIRED_COLUMNS)}

\* the table has records and the first record has every required column
PassesStructure == Len(data) > 0 /\ \A c \in RequiredSet : c \in DOMAIN data[1]

\* the table has records and the first record lacks a required column
LacksColumn == Len(data) > 0 /\ \E c \in RequiredSet : c \notin DOMAIN data[1]

\* the errors reported for one field of one row, in list order
ErrorsOf(field, rowNumber) ==
    SelectSeq(R.errors, LAMBDA e : e.field = field /\ e.rowNumber = rowNumber)

\* the data rows (1-based) for which no error carries their row number
CleanRows == {i \in 1..Len(data) : \A j \in 1..Len(R.errors) : R.errors[j].rowNumber # i + 1}

\* the run of processData ended before the upload for a reason the catch
\* block or the validation branch recorded
EndedBeforeUpload ==
    /\ processingStep = "error"
    /\ validationError # Null
    /\ validationError[1].msg \in {ReadFailedMessage, ParseFailedMessage, InvalidDataMessage}

\* C1: the upload call is made only after validateDataStructure returned
\* isValid = TRUE for the parsed content of the uploaded file; a result with
\* errors, or a failed read or parse, ends the run in step 'error' with no
\* upload and no create-user call; a valid result never ends the run before
\* the upload
C1_UploadOnlyAfterValid ==
    /\ uploadCalls # <<>> =>
          /\ file # Null /\ uploadCalls = <<file[1]>>
          /\ ~parseCSV(uploadCalls[1].text).threw
          /\ validationResult
                = Some(validateDataStructure(parseCSV(uploadCalls[1].text).data, dateRollover))
          /\ validationResult[1].isValid
          /\ validationResult[1].errors = <<>>
    /\ EndedBeforeUpload => uploadCalls = <<>> /\ createUserCalls = <<>>
    /\ (pc = "done" /\ (validationResult = Null \/ ~validationResult[1].isValid))
          => processingStep = "error" /\ uploadCalls = <<>> /\ createUserCalls = <<>>
    /\ (pc \notin {"idle", "reading"} /\ validationResult # Null /\ validationResult[1].isValid)
          => pc = "wait300" \/ uploadCalls # <<>>

C1_Witness ==
    /\ pc = "uploading"
    /\ uploadCalls = <<file[1]>>
    /\ validationResult # Null /\ validationResult[1].isValid

\* C2: every returned result has isValid = TRUE exactly when errors is empty
C2_IsValidIffNoErrors ==
    Returned => (R.isValid <=> Len(R.errors) = 0)

C2_Witness ==
    /\ Returned /\ R.isValid /\ R.stats.totalRows = 2

\* C3 as stated: for every input table validRows <= totalRows, totalRows is
\* the number of records and validRows is the number of rows without an error
\* of their row number
C3_Original ==
    Returned =>
        /\ R.stats.validRows <= R.stats.totalRows
        /\ R.stats.totalRows = Len(data)
        /\ R.stats.validRows = Cardinality(CleanRows)

\* C3 amended: the two bounds hold for every table; validRows is the number of
\* rows without an error when the table passes structural validation, and 0
\* when a required column is missing (the rows are then not scanned)
C3_RowAccounting ==
    Returned =>
        /\ R.stats.validRows <= R.stats.totalRows
        /\ R.stats.totalRows = Len(data)
        /\ PassesStructure => R.stats.validRows = Cardinality(CleanRows)
        /\ LacksColumn => R.stats.validRows = 0

C3_Witness ==
    /\ Returned /\ PassesStructure
    /\ Len(data) = 2 /\ R.stats.validRows = 1 /\ Len(R.errors) >= 2

DistinctCategories ==
    {data[i][PRODUCT_CATEGORYS] : i \in {j \in 1..Len(data) : ~IsBlank(data[j][PRODUCT_CATEGORYS])}}

DistinctRegions ==
    {Trim(data[i][PULAUS]) : i \in {j \in 1..Len(data) : ~IsBlank(data[j][PULAUS])}}

\* C4: a table that passes structural validation gets one warning for each
\* missed threshold: fewer than 100 rows, fewer than 3 distinct categories,
\* fewer than 2 distinct regions
C4_WarningsEmitted ==
    (Returned /\ PassesStructure) =>
        Len(R.warnings) >= (IF R.stats.totalRows < 100 THEN 1 ELSE 0)
                           + (IF Cardinality(DistinctCategories) < 3 THEN 1 ELSE 0)
                           + (IF Cardinality(DistinctRegions) < 2 THEN 1 ELSE 0)

\* the column names listed in a header error value
ListedNames(value) == {Trim(Split(value, ",")[i]) : i \in 1..Len(Split(value, ","))}

\* C5: a missing required column gives exactly one header error on row 1 whose
\* value lists all the missing columns, isValid FALSE, no warnings,
\* totalRows = number of records, validRows = 0 and no row-level error
C5_MissingColumns ==
    (Returned /\ LacksColumn) =>
        /\ Len(R.errors) = 1
        /\ R.errors[1].field = "header"
        /\ R.errors[1].rowNumber = 1
        /\ ListedNames(R.errors[1].value) = {c \in RequiredSet : c \notin DOMAIN data[1]}
        /\ ~R.isValid
        /\ R.warnings = <<>>
        /\ R.stats.totalRows = Len(data)
        /\ R.stats.validRows = 0

C5_Witness ==
    /\ Returned /\ Len(data) = 2
    /\ quantityLower \in DOMAIN data[1]
    /\ PULAUS \notin DOMAIN data[1]
    /\ Len(R.errors) = 1
    /\ R.errors[1].value = PULAUS \o <<",", " ">> \o QuantityS

\* the date a string denotes when read as YYYY-MM-DD or as DD/MM/YYYY
IsRealDate(y, m, d) == m \in 1..12 /\ d >= 1 /\ d <= DaysInMonth(y, m)

DenotesRealDate(s) ==
    \/ /\ MatchesIsoPattern(s)
       /\ IsRealDate(DigitsToNat(SubSeq(s, 1, 4)), DigitsToNat(SubSeq(s, 6, 7)),
                     DigitsToNat(SubSeq(s, 9, 10)))
    \/ /\ MatchesSlashPattern(s)
       /\ IsRealDate(DigitsToNat(SubSeq(s, 7, 10)), DigitsToNat(SubSeq(s, 4, 5)),
                     DigitsToNat(SubSeq(s, 1, 2)))

\* a string that is a number and nothing else: sign, digits, optional fraction
IsPlainNumber(s) ==
    LET t == Trim(s)
        u == IF t # <<>> /\ Head(t) \in {"+", "-"} THEN Tail(t) ELSE t
        intD == DigitRun(u)
        rest == Drop(u, Len(intD))
    IN  /\ intD # <<>>
        /\ \/ rest = <<>>
           \/ /\ Head(rest) = "."
              /\ Tail(rest) # <<>>
              /\ DigitRun(Tail(rest)) = Tail(rest)

\* the documented rule of each field
ViolatesRule(key, v) ==
    IF key = InvoiceDateS THEN IsBlank(v) \/ ~DenotesRealDate(Trim(v))
    ELSE IF key = QuantityS
    THEN IsBlank(v) \/ ~IsPlainNumber(v) \/ LeqZero(parseFloat(v))
            \/ ~NumberIsInteger(parseFloat(v))
    ELSE IsBlank(v)

FieldNames == <<"InvoiceNo", "InvoiceDate", "PULAU", "PRODUCT_CATEGORY", "Quantity">>

\* C6: after a row scan, errors has exactly one entry for each (row, field)
\* whose value violates the field's rule, and no other entry
C6_OneErrorPerViolation ==
    (Returned /\ PassesStructure) =>
        /\ \A i \in 1..Len(data) : \A f \in 1..5 :
              Len(ErrorsOf(FieldNames[f], i + 1))
                  = IF ViolatesRule(REQUIRED_COLUMNS[f], Get(data[i], REQUIRED_COLUMNS[f]))
                    THEN 1 ELSE 0
        /\ \A j \in 1..Len(R.errors) :
              /\ R.errors[j].rowNumber \in 2..(Len(data) + 1)
              /\ \E f \in 1..5 : R.errors[j].field = FieldNames[f]

FieldIndex(field) == CHOOSE f \in 1..5 : FieldNames[f] = field

\* C7: after a row scan the errors are in file order of their rows and, within
\* a row, in the order InvoiceNo, InvoiceDate, PULAU, PRODUCT_CATEGORY, Quantity
C7_ErrorOrder ==
    (Returned /\ PassesStructure) =>
        \A i \in 1..Len(R.errors) : \A j \in 1..Len(R.errors) :
            i < j =>
                /\ R.errors[i].rowNumber <= R.errors[j].rowNumber
                /\ R.errors[i].rowNumber = R.errors[j].rowNumber
                      => FieldIndex(R.errors[i].field) < FieldIndex(R.errors[j].field)

C7_Witness ==
    /\ Returned /\ PassesStructure /\ Len(data) = 2
    /\ Len(ErrorsOf("InvoiceDate", 3)) = 1
    /\ Len(ErrorsOf("Quantity", 3)) = 1
    /\ Len(ErrorsOf("InvoiceNo", 2)) = 1

WrongFormat == <<"Format tanggal salah. Gunakan YYYY-MM-DD atau DD/MM/YYYY">>
InvalidDate == <<"Tanggal tidak valid (periksa hari/bulan/tahun)">>

DateCell == data[1][InvoiceDateS]

\* C8: a real calendar date written YYYY-MM-DD or DD/MM/YYYY gets no
\* InvoiceDate error
C8_RealDateAccepted ==
    (Returned /\ DenotesRealDate(DateCell)) => ErrorsOf("InvoiceDate", 2) = <<>>

\* C9: a non-empty InvoiceDate gets the single error 'wrong date format' when
\* it matches neither pattern, the single error 'invalid date' when it matches
\* a pattern without denoting a real calendar date, and no error otherwise
C9_DateOutcomes ==
    (Returned /\ ~IsBlank(DateCell)) =>
        LET errs == ErrorsOf("InvoiceDate", 2) IN
        IF ~dateRegexTest(DateCell)
        THEN Len(errs) = 1 /\ errs[1].reason = WrongFormat
        ELSE IF ~DenotesRealDate(DateCell)
        THEN Len(errs) = 1 /\ errs[1].reason = InvalidDate
        ELSE errs = <<>>

MustBeNumeric == <<"Quantity harus berupa angka">>
MustBePositive == <<"Quantity harus lebih besar dari 0">>
MustBeWhole == <<"Quantity harus berupa angka bulat (tidak ada desimal)">>
MustNotBeEmpty == <<"Jumlah produk tidak boleh kosong">>

QuantityCell == data[1][QuantityS]

QuantityReasons == [i \in 1..Len(ErrorsOf("Quantity", 2)) |-> ErrorsOf("Quantity", 2)[i].reason]

\* C10: the Quantity checks run in the order not-empty, numeric, greater than
\* zero, whole number and only the first violated one is reported
C10_QuantityFirstViolation ==
    Returned =>
        /\ Len(QuantityReasons) <= 1
        /\ QuantityCell = <<>> => QuantityReasons = <<MustNotBeEmpty>>
        /\ QuantityCell = <<"t", "e", "n">> => QuantityReasons = <<MustBeNumeric>>
        /\ QuantityCell = <<"0">> => QuantityReasons = <<MustBePositive>>
        /\ QuantityCell = <<"-", "3">> => QuantityReasons = <<MustBePositive>>
        /\ QuantityCell = <<"5", ".", "5">> => QuantityReasons = <<MustBeWhole>>
        /\ QuantityCell = <<"5">> => QuantityReasons = <<>>
        \* a later check is reported only when the earlier ones passed
        /\ QuantityReasons = <<MustBeNumeric>> => ~IsBlank(QuantityCell)
        /\ QuantityReasons = <<MustBePositive>>
              => ~IsBlank(QuantityCell) /\ ~isNaN(parseFloat(QuantityCell))
        /\ QuantityReasons = <<MustBeWhole>>
              => /\ ~IsBlank(QuantityCell) /\ ~isNaN(parseFloat(QuantityCell))
                 /\ ~LeqZero(parseFloat(QuantityCell))
        \* a negative fraction fails both of the last two checks: the earlier wins
        /\ QuantityCell = <<"-", ".", "5">> => QuantityReasons = <<MustBePositive>>

C10_Witness ==
    /\ Returned
    /\ QuantityCell = <<"-", ".", "5">>
    /\ QuantityReasons = <<MustBePositive>>

\* a letter that is no part of a decimal literal
HasText(s) == \E i \in 1..Len(s) : s[i] \in {"p", "t", "n"}

\* C11: a Quantity that is not a pure number (a number followed by text, or a
\* word) gets the 'Quantity harus berupa angka' error and its row is not valid
C11_TextIsNotNumeric ==
    (Returned /\ ~IsBlank(QuantityCell) /\ ~IsPlainNumber(QuantityCell) /\ HasText(QuantityCell))
        => /\ QuantityReasons = <<MustBeNumeric>>
           /\ R.stats.validRows = 0
           /\ ~R.isValid

NotEmptyInvoiceNo == <<"Nomor faktur tidak boleh kosong">>

UnsupportedFormat == Some(Message("Format file tidak didukung. Gunakan CSV atau Excel (.csv, .xlsx, .xls)"))
EmptyFile == Some(Message("File kosong. Pastikan file memiliki data."))
FileTooLarge == Some(Message("File terlalu besar (max 50MB). Perpecil file Anda."))

\* the suffix of a name that starts at its last '.', in lower case
SuffixSupported(name) ==
    /\ LastDot(name) # 0
    /\ toLowerCase(SubSeq(name, LastDot(name), Len(name))) \in {csvExt, xlsxExt, xlsExt}

\* C13: validateFile accepts a file exactly when the lower-cased suffix of its
\* name from the last '.' is .csv, .xlsx or .xls and 0 < size <= 52,428,800;
\* otherwise it reports the first failing check in the order unsupported
\* format, empty file, file too large
C13_ValidateFile ==
    (Returned /\ candidate # Null) =>
        LET f == candidate[1] IN
        /\ R.ok <=> (SuffixSupported(f.name) /\ 0 < f.size /\ f.size <= 52428800)
        /\ R.ok => R.error = Null
        /\ ~R.ok =>
              R.error = IF ~SuffixSupported(f.name) THEN UnsupportedFormat
                        ELSE IF f.size = 0 THEN EmptyFile
                        ELSE FileTooLarge

\* C14: the selected file is null or a file that validateFile accepts, so the
\* run of processData reads, parses and uploads only an accepted file
C14_SelectedFilePassed ==
    /\ file # Null => validateFile(file[1]).ok
    /\ pc # "idle" => file # Null /\ validateFile(file[1]).ok
    /\ \A i \in 1..Len(uploadCalls) : validateFile(uploadCalls[i]).ok

\* a rejected candidate was dropped while a file was selected
C14_Witness ==
    /\ file # Null
    /\ validationError = UnsupportedFormat
    /\ pc = "idle"

\* the characters of a text before its first line break
InspectedLine(t) ==
    IF \E i \in 1..Len(t) : t[i] = "\n"
    THEN SubSeq(t, 1, (CHOOSE i \in 1..Len(t) :
                          t[i] = "\n" /\ \A j \in 1..(i - 1) : t[j] # "\n") - 1)
    ELSE t

Occurrences(t, c) == Cardinality({i \in 1..Len(t) : t[i] = c})

\* C15: detectDelimiter returns the semicolon exactly when the inspected line
\* has more semicolons than commas and than tabs, the tab exactly when it has
\* more tabs than commas and than semicolons, and the comma in every other
\* case; the semicolon header is split into 5 columns
C15_DelimiterChoice ==
    Returned =>
        LET commas == Occurrences(InspectedLine(fileText), ",")
            semicolons == Occurrences(InspectedLine(fileText), ";")
            tabs == Occurrences(InspectedLine(fileText), "\t")
        IN  /\ R.delimiter \in {",", ";", "\t"}
            /\ R.delimiter = ";" <=> (semicolons > commas /\ semicolons > tabs)
            /\ R.delimiter = "\t" <=> (tabs > commas /\ tabs > semicolons)
            /\ fileText = SemicolonHeader =>
                  /\ R.delimiter = ";"
                  /\ R.columns = REQUIRED_COLUMNS

\* semicolons and tabs tie above the commas: the comma is returned
C15_Witness ==
    /\ Returned
    /\ Occurrences(InspectedLine(fileText), ";") = 1
    /\ Occurrences(InspectedLine(fileText), "\t") = 1
    /\ Occurrences(InspectedLine(fileText), ",") = 0
    /\ R.delimiter = ","

\* the line parseCSV treats as the header
HeaderLine(t) == NonBlankLines(t)[1]

\* C16: the delimiter parseCSV uses is the one inferred from the header line,
\* the first non-blank line, also when the text starts with blank lines
C16_DelimiterOfHeader ==
    (Returned /\ ~R.parsed.threw) =>
        R.parsed.delimiter = detectDelimiter(HeaderLine(fileText))

\* the number of lines of a text that hold a character other than white space
NonBlankLineCount(t) ==
    Cardinality({k \in 1..Len(Split(t, "\n")) : Trim(Split(t, "\n")[k]) # <<>>})

ParseFailedError == Some(Message(ParseFailedMessage))

\* C17: the run of processData ends with the 'file too short' error exactly
\* when the text that was read has fewer than 2 non-blank lines; the run then
\* is in step 'error', no validation result is stored and no upload is made
C17_FileTooShort ==
    /\ (pc = "done" /\ validationError = ParseFailedError)
          => /\ NonBlankLineCount(file[1].text) < 2
             /\ processingStep = "error"
             /\ validationResult = Null
             /\ ~showValidationDetails
             /\ uploadCalls = <<>> /\ createUserCalls = <<>>
    /\ (pc \notin {"idle", "reading"} /\ NonBlankLineCount(file[1].text) < 2)
          => /\ pc = "done"
             /\ validationError \in {ParseFailedError, Some(Message(ReadFailedMessage))}
             /\ processingStep = "error"
             /\ validationResult = Null
             /\ uploadCalls = <<>> /\ createUserCalls = <<>>

\* a file with the header line only was processed
C17_Witness ==
    /\ pc = "done"
    /\ validationError = ParseFailedError
    /\ NonBlankLineCount(file[1].text) = 1

\* the records parseCSV returned and the result validateDataStructure gave
Records == R.parsed.data
V == R.validation[1]

\* C18: in a result obtained by parsing a text and validating the records
\* every error has rowNumber >= 1: the field errors of the i-th record carry
\* rowNumber i + 1, a header error carries rowNumber 1, and the 'general'
\* error of row 0 does not occur, as parseCSV returns at least one record
C18_RowNumbers ==
    (Returned /\ ~R.parsed.threw) =>
        /\ Len(Records) >= 1
        /\ \A j \in 1..Len(V.errors) :
              LET e == V.errors[j] IN
              /\ e.rowNumber >= 1
              /\ e.field # "general"
              /\ e.field = "header" => e.rowNumber = 1 /\ Len(V.errors) = 1
              /\ e.field # "header" =>
                    /\ e.rowNumber \in 2..(Len(Records) + 1)
                    /\ \E f \in 1..5 :
                          /\ FieldNames[f] = e.field
                          /\ e.value \in {Get(Records[e.rowNumber - 1], REQUIRED_COLUMNS[f]),
                                           OrKosong(Get(Records[e.rowNumber - 1],
                                                        REQUIRED_COLUMNS[f]))}
        /\ (\A j \in 1..Len(V.errors) : V.errors[j].field # "header") =>
              \A i \in 1..Len(Records) : \A f \in 1..5 :
                  IsBlank(Get(Records[i], REQUIRED_COLUMNS[f]))
                      => \E j \in 1..Len(V.errors) :
                            /\ V.errors[j].field = FieldNames[f]
                            /\ V.errors[j].rowNumber = i + 1

\* the first record is clean and the second has the bad Quantity: the only
\* error is on row 3
C18_Witness ==
    /\ Returned /\ ~R.parsed.threw
    /\ Len(Records) = 2
    /\ Len(V.errors) = 1
    /\ V.errors[1].field = "Quantity"
    /\ V.errors[1].rowNumber = 3
    /\ V.errors[1].value = <<"t", "e", "n">>

DetailsDisplayed ==
    /\ UploadCardShown
    /\ validationResult # Null
    /\ showValidationDetails
    /\ ~validationResult[1].isValid

\* the run of processData ended in the validation branch of lines 856-863
ValidationFailureReached ==
    /\ pc = "done"
    /\ processingStep = "error"
    /\ validationResult # Null
    /\ ~validationResult[1].isValid

\* C20: after a validation failure the validation details are displayed in
\* the upload form, where the user can remove the file and try again
C20_DetailsAfterFailure ==
    ValidationFailureReached => DetailsDisplayed

\* the header tokens of a text as parseCSV reads them
HeaderTokens(t, delimiter) ==
    {StripQuotes(parseCSVLine(HeaderLine(t), delimiter)[j]) :
        j \in 1..Len(parseCSVLine(HeaderLine(t), delimiter))}

NoHeaderError == \A j \in 1..Len(V.errors) : V.errors[j].field # "header"

\* C21: all records parseCSV returns for a text have the same key set, the
\* header tokens, so every record of a table that passed structural
\* validation has all five schema keys
C21_SameKeys ==
    (Returned /\ ~R.parsed.threw) =>
        /\ \A i \in 1..Len(Records) :
              DOMAIN Records[i] = HeaderTokens(fileText, R.parsed.delimiter)
        /\ NoHeaderError => \A i \in 1..Len(Records) : RequiredSet \subseteq DOMAIN Records[i]

\* the table passed structural validation and its second line is short
C21_Witness ==
    /\ Returned /\ ~R.parsed.threw
    /\ NoHeaderError
    /\ Len(Records) = 2
    /\ Records[1][QuantityS] = <<"5">>
    /\ Records[2][QuantityS] = <<>>
    /\ Records[2][InvoiceNoS] # <<>>

\* C22: for the empty record sequence validateDataStructure returns the
\* single error of field 'general' and row 0, isValid FALSE, no warnings and
\* stats 0 / 0
C22_EmptyTable ==
    (Returned /\ data = <<>>) =>
        /\ Len(R.errors) = 1
        /\ R.errors[1].field = "general"
        /\ R.errors[1].rowNumber = 0
        /\ ~R.isValid
        /\ R.warnings = <<>>
        /\ R.stats = [totalRows |-> 0, validRows |-> 0]

C22_Witness ==
    /\ Returned /\ data = <<>>
    /\ R.errors[1].reason = <<"Data kosong. Tidak ada baris transaksi ditemukan.">>

\* C23: a step that removes the selected file leaves validationError,
\* validationResult and showValidationDetails cleared and changes neither
\* step, userInfo nor processingStep
C23_RemoveFileClears ==
    [][(file # Null /\ file' = Null) =>
          /\ validationError' = Null
          /\ validationResult' = Null
          /\ showValidationDetails' = FALSE
          /\ UNCHANGED <<step, userInfo, processingStep>>]_vars

\* removeFile can be pressed while a message is displayed
C23_Witness ==
    /\ UploadCardShown
    /\ file # Null
    /\ validationError = EmptyFile

Quote == "\""

\* the number of quote characters of a line before position i
QuotesBefore(line, i) == Cardinality({j \in 1..(i - 1) : line[j] = Quote})

\* the delimiters of a line that lie outside quoted spans: an even number of
\* quote characters comes before them
OutsideDelimiters(line, delimiter) ==
    {i \in 1..Len(line) : line[i] = delimiter /\ QuotesBefore(line, i) % 2 = 0}

\* the first position of the run of quote characters that holds position i
RunStart(line, i) ==
    CHOOSE r \in 1..i :
        /\ \A j \in r..i : line[j] = Quote
        /\ r = 1 \/ line[r - 1] # Quote

\* the quote characters that complete a doubled quote inside a quoted span:
\* in a run of quotes that starts inside a span the 2nd, 4th, ... quote, in a
\* run that starts outside (its first quote opens the span) the 3rd, 5th, ...
DoubledQuotes(line) ==
    {i \in 1..Len(line) :
        /\ line[i] = Quote
        /\ LET r == RunStart(line, i)
               offset == i - r + 1
           IN  IF QuotesBefore(line, r) % 2 = 1 THEN offset % 2 = 0
               ELSE offset >= 3 /\ offset % 2 = 1}

QuotesIn(fields) ==
    Cardinality({<<k, j>> \in (1..Len(fields)) \X (1..MaxLineLen + 1) :
                    j <= Len(fields[k]) /\ fields[k][j] = Quote})

\* C24: parseCSVLine returns 1 + the number of delimiters outside quoted
\* spans fields; a doubled quote inside a span gives one literal quote and
\* does not end the span; after an unterminated quote the rest of the line
\* is one field
C24_QuotedSpans ==
    Returned =>
        /\ Len(R.fields) = 1 + Cardinality(OutsideDelimiters(fileText, R.delimiter))
        /\ QuotesIn(R.fields) = Cardinality(DoubledQuotes(fileText))
        /\ (fileText = <<Quote, "a", ",", "a">> /\ R.delimiter = ",")
              => R.fields = << <<"a", ",", "a">> >>
        /\ (fileText = <<Quote, "a", Quote, Quote, ",">> /\ R.delimiter = ",")
              => R.fields = << <<"a", Quote, ",">> >>
        /\ (fileText = <<Quote, ",", Quote, ",", "a">> /\ R.delimiter = ",")
              => R.fields = << <<",">>, <<"a">> >>

\* a doubled quote inside a span that is never closed
C24_Witness ==
    /\ Returned
    /\ fileText = <<Quote, "a", Quote, Quote, ",">>
    /\ R.delimiter = ","
    /\ R.fields = << <<"a", Quote, ",">> >>

\* the header tokens of a text in order, and the tokenized cells of its i-th
\* non-blank line after the header
HeaderSeq(t, delimiter) ==
    [j \in 1..Len(parseCSVLine(HeaderLine(t), delimiter)) |->
        StripQuotes(parseCSVLine(HeaderLine(t), delimiter)[j])]

CellsOf(t, i, delimiter) == parseCSVLine(NonBlankLines(t)[i + 1], delimiter)

ApiFailed ==
    /\ validationError # Null
    /\ validationError[1].msg \in {UploadFailedMessage, CreateUserFailedMessage}

\* C26: when the API call fails, the run falls back to simulateProcessing,
\* which goes through validating, forecasting and mba to 'complete' and
\* navigates to the dashboard: the page is not left in step 'error'
C26_FallbackOnApiFailure ==
    ApiFailed => processingStep \in {"validating", "forecasting", "mba", "complete"}

\* the moves of processingStep the claim allows; 'uploading' is set and
\* replaced by 'validating' in the same synchronous pass
AllowedMove(from, to) ==
    \/ from = to
    \/ from = "idle" /\ to \in {"uploading", "validating"}
    \/ from = "uploading" /\ to = "validating"
    \/ from = "validating" /\ to \in {"error", "forecasting"}
    \/ from = "forecasting" /\ to \in {"error", "mba"}
    \/ from = "mba" /\ to \in {"error", "complete"}

RunSucceeded ==
    /\ Len(uploadCalls) = 1
    /\ Len(createUserCalls) = 1
    /\ pc \in {"wait800", "done"}
    /\ processingStep = "complete"
    /\ progress = 100

\* C27: processingStep follows idle, uploading, validating, then error or
\* forecasting, mba, complete, with a move to error from forecasting or mba;
\* progress never decreases and takes the values 10, 20, 40, 70, 90, 100;
\* 'complete', the localStorage write and the navigation come only after
\* both calls succeeded
C27_StepOrder ==
    /\ [][/\ AllowedMove(processingStep, processingStep')
           /\ progress' >= progress]_vars
    /\ [](/\ progress \in {0, 10, 20, 40, 70, 90, 100}
           /\ ((processingStep = "complete" \/ localStorage # Null \/ route = "dashboard")
                 => RunSucceeded)
           /\ (localStorage # Null => localStorage = Some(userInfo)))

C27_Witness ==
    /\ route = "dashboard"
    /\ processingStep = "complete"
    /\ progress = 100
    /\ localStorage # Null

C29_ProgressStaysZero ==
    importStep = "idle" => (importProgress = 0 /\ progressIntervals = 0)

LastApplied == applied[Len(applied)]

\* C30: promoSuggestionsCount is set only by the computePromoCount run of
\* the current selectedIsland, products and mbaRules, while the component
\* is mounted; the result of a superseded run is never applied
C30_OnlyCurrentRunApplies ==
    /\ [][applied' # applied =>
            LET r == applied'[Len(applied')] IN
            /\ dashboardMounted
            /\ r = Len(effectRuns)
            /\ effectRuns[r].island = selectedIsland
            /\ effectRuns[r].list = Take(OrEmpty(products), MaxForecasts)
            /\ effectRuns[r].rules = OrEmpty(mbaRules)]_vars
    /\ [](promoSuggestionsCount =
              IF applied = <<>> THEN 0 ELSE CountOf(effectRuns[LastApplied]))

\* a superseded run with requests has resumed without setting the count, and
\* a later run has set it
C30_Witness ==
    /\ applied # <<>>
    /\ promoSuggestionsCount > 0
    /\ \E r \in 1..Len(effectRuns) :
          /\ r < LastApplied
          /\ effectRuns[r].finished
          /\ Len(effectRuns[r].list) > 0
          /\ \A k \in 1..Len(applied) : applied[k] # r

====
